---- MODULE Spec2Model ----
(***************************************************************************)
(* Model of the orchestrator CLI of background-agents: the project store   *)
(* (createProject / saveProject / loadProject over a file system) and the  *)
(* execution scheduler (runExecution / spawnTask / pollTask) driven by     *)
(* the orchestrate command, with process kills and resumes.                *)
(***************************************************************************)
EXTENDS Integers, Sequences, FiniteSets, TLC

VARIABLES
    state,        \* the ProjectState object of the running process
    pc,           \* position of the running process
    files,        \* the projects directory: path -> Absent or File(content)
    clock,        \* Date.now()
    committed,    \* history: the state of the last saveProject that renamed
    maxParallel,  \* runExecution: options.maxParallel ?? DEFAULT_MAX_PARALLEL
    pending,      \* runExecution: ids of the `pending` snapshot of this iteration
    runningLen,   \* runExecution: running.length of this iteration
    toSpawn,      \* runExecution: the part of toSpawn not yet spawned
    toSpawnLen,   \* runExecution: toSpawn.length
    pollQueue,    \* runExecution: the running tasks not yet polled this cycle
    session,      \* control plane: stage of the session of each task
    created,      \* control plane: number of sessions created so far
    everRunning,  \* history: tasks that have had status running
    startRunning, \* history: number of running tasks when this run started
    call          \* a function called on its own: its arguments, locals and result

vars == <<state, pc, files, clock, committed, maxParallel, pending, runningLen,
          toSpawn, toSpawnLen, pollQueue, session, created, everRunning,
          startRunning, call>>

-----------------------------------------------------------------------------
(* Bounds of the model.                                                    *)

MaxClock == 1

\* kills of the process between the creation of a session and its record
MaxLostSessions == 1

-----------------------------------------------------------------------------
(* JavaScript values.  A nullable field holds Null or Some(v); an optional *)
(* field (error?: string) holds Undefined or Some(v).                      *)

Null == <<>>
Undefined == <<>>
Some(v) == <<v>>
Val(x) == x[1]

\* the state variable while no process runs
NoProject == <<>>

Absent == [exists |-> FALSE]
File(content) == [exists |-> TRUE, content |-> content]

Min(a, b) == IF a <= b THEN a ELSE b
Max(a, b) == IF a >= b THEN a ELSE b

RECURSIVE SeqFilterIds(_, _)
\* the subsequence of s whose elements are in S (Array.prototype.filter)
SeqFilterIds(s, S) ==
    IF s = <<>> THEN <<>>
    ELSE IF Head(s) \in S THEN <<Head(s)>> \o SeqFilterIds(Tail(s), S)
         ELSE SeqFilterIds(Tail(s), S)

Range(s) == {s[i] : i \in DOMAIN s}

-----------------------------------------------------------------------------
(* JSON: values as trees, texts as token lists.                            *)

JNull == [t |-> "null"]
JNum(n) == [t |-> "num", n |-> n]
JStr(s) == [t |-> "str", s |-> s]
JArr(a) == [t |-> "arr", a |-> a]
JObj(e) == [t |-> "obj", e |-> e]     \* e: list of <<key, tree>> in own-key order

Punct(s) == [k |-> "punct", s |-> s]
StrTok(s) == [k |-> "str", s |-> s]
NumTok(s) == [k |-> "num", s |-> s]
LitTok(s) == [k |-> "lit", s |-> s]
Newline == [k |-> "ws", s |-> "\n"]

NumberRange == 0..MaxClock

RECURSIVE Render(_)
RECURSIVE RenderItems(_)
RECURSIVE RenderMembers(_)
\* JSON.stringify of a tree
Render(v) ==
    CASE v.t = "null" -> <<LitTok("null")>>
      [] v.t = "num" -> <<NumTok(ToString(v.n))>>
      [] v.t = "str" -> <<StrTok(v.s)>>
      [] v.t = "arr" -> <<Punct("[")>> \o RenderItems(v.a) \o <<Punct("]")>>
      [] v.t = "obj" -> <<Punct("{")>> \o RenderMembers(v.e) \o <<Punct("}")>>
RenderItems(a) ==
    IF a = <<>> THEN <<>>
    ELSE Render(Head(a)) \o
         (IF Tail(a) = <<>> THEN <<>> ELSE <<Punct(",")>> \o RenderItems(Tail(a)))
RenderMembers(e) ==
    IF e = <<>> THEN <<>>
    ELSE <<StrTok(Head(e)[1]), Punct(":")>> \o Render(Head(e)[2]) \o
         (IF Tail(e) = <<>> THEN <<>> ELSE <<Punct(",")>> \o RenderMembers(Tail(e)))

Fail == [ok |-> FALSE]
Ok(v, i) == [ok |-> TRUE, v |-> v, i |-> i]

\* own-key order of a JavaScript object: array-index keys ascending, then the
\* other keys in insertion order
IndexKeys == {ToString(n) : n \in 0..9}
IndexOf(key) == CHOOSE n \in 0..9 : ToString(n) = key
RECURSIVE ObjectSet(_, _, _)
ObjectSet(e, key, v) ==
    IF e = <<>> THEN <<<<key, v>>>>
    ELSE IF Head(e)[1] = key THEN <<<<key, v>>>> \o Tail(e)
    ELSE IF key \in IndexKeys /\
            (Head(e)[1] \notin IndexKeys \/ IndexOf(key) < IndexOf(Head(e)[1]))
         THEN <<<<key, v>>>> \o e
    ELSE <<Head(e)>> \o ObjectSet(Tail(e), key, v)

HasKey(e, key) == \E i \in DOMAIN e : e[i][1] = key
Get(e, key) == e[CHOOSE i \in DOMAIN e : e[i][1] = key][2]

RECURSIVE ParseValue(_, _)
RECURSIVE ParseItems(_, _, _)
RECURSIVE ParseMembers(_, _, _)
\* JSON.parse, one value starting at token i: Ok(tree, next index) or Fail
ParseValue(toks, i) ==
    IF i > Len(toks) THEN Fail
    ELSE LET tok == toks[i] IN
         CASE tok.k = "lit" -> IF tok.s = "null" THEN Ok(JNull, i + 1) ELSE Fail
           [] tok.k = "num" ->
                IF \E n \in NumberRange : ToString(n) = tok.s
                THEN Ok(JNum(CHOOSE n \in NumberRange : ToString(n) = tok.s), i + 1)
                ELSE Fail
           [] tok.k = "str" -> Ok(JStr(tok.s), i + 1)
           [] tok.k = "punct" ->
                IF tok.s = "[" THEN
                    IF i + 1 <= Len(toks) /\ toks[i + 1] = Punct("]")
                    THEN Ok(JArr(<<>>), i + 2)
                    ELSE ParseItems(toks, i + 1, <<>>)
                ELSE IF tok.s = "{" THEN
                    IF i + 1 <= Len(toks) /\ toks[i + 1] = Punct("}")
                    THEN Ok(JObj(<<>>), i + 2)
                    ELSE ParseMembers(toks, i + 1, <<>>)
                ELSE Fail
           [] OTHER -> Fail
ParseItems(toks, i, acc) ==
    LET r == ParseValue(toks, i) IN
    IF ~r.ok \/ r.i > Len(toks) THEN Fail
    ELSE IF toks[r.i] = Punct(",") THEN ParseItems(toks, r.i + 1, Append(acc, r.v))
    ELSE IF toks[r.i] = Punct("]") THEN Ok(JArr(Append(acc, r.v)), r.i + 1)
    ELSE Fail
ParseMembers(toks, i, acc) ==
    IF i + 1 > Len(toks) \/ toks[i].k # "str" \/ toks[i + 1] # Punct(":") THEN Fail
    ELSE LET r == ParseValue(toks, i + 2) IN
         IF ~r.ok \/ r.i > Len(toks) THEN Fail
         ELSE IF toks[r.i] = Punct(",")
              THEN ParseMembers(toks, r.i + 1, ObjectSet(acc, toks[i].s, r.v))
         ELSE IF toks[r.i] = Punct("}")
              THEN Ok(JObj(ObjectSet(acc, toks[i].s, r.v)), r.i + 1)
         ELSE Fail

RECURSIVE SkipWs(_, _)
SkipWs(toks, i) ==
    IF i <= Len(toks) /\ toks[i].k = "ws" THEN SkipWs(toks, i + 1) ELSE i

\* JSON.parse of a whole text: one value, then only white space
JsonParse(toks) ==
    LET r == ParseValue(toks, SkipWs(toks, 1)) IN
    IF r.ok /\ SkipWs(toks, r.i) = Len(toks) + 1 THEN r ELSE Fail

-----------------------------------------------------------------------------
(* ProjectState <-> JSON.  ToJson is the traversal JSON.stringify makes of *)
(* the object (own keys in order, undefined members dropped); FromJson     *)
(* reads the parsed value back as a ProjectState.                          *)

\* a conversion that writes a missing string as the text "null"
NullableStrAsText(x) == IF x = Null THEN JStr("null") ELSE JStr(Val(x))

NullableStr(x) == IF x = Null THEN JNull ELSE JStr(Val(x))
NullableNum(x) == IF x = Null THEN JNull ELSE JNum(Val(x))
ReadNullableStr(v) == IF v.t = "null" THEN Null ELSE Some(v.s)
ReadNullableNum(v) == IF v.t = "null" THEN Null ELSE Some(v.n)
OptionalStr(key, x) == IF x = Undefined THEN <<>> ELSE <<<<key, JStr(Val(x))>>>>
ReadOptionalStr(e, key) == IF HasKey(e, key) THEN Some(Get(e, key).s) ELSE Undefined

ExecToJson(x) ==
    JObj(<< <<"taskId", JStr(x.taskId)>>,
            <<"status", JStr(x.status)>>,
            <<"sessionId", NullableStr(x.sessionId)>>,
            <<"branchName", NullableStr(x.branchName)>>,
            <<"startedAt", NullableNum(x.startedAt)>>,
            <<"completedAt", NullableNum(x.completedAt)>>,
            <<"summary", NullableStr(x.summary)>>,
            <<"error", NullableStr(x.error)>>,
            <<"retryCount", JNum(x.retryCount)>> >>)

ExecFromJson(v) ==
    [taskId      |-> Get(v.e, "taskId").s,
     status      |-> Get(v.e, "status").s,
     sessionId   |-> ReadNullableStr(Get(v.e, "sessionId")),
     branchName  |-> ReadNullableStr(Get(v.e, "branchName")),
     startedAt   |-> ReadNullableNum(Get(v.e, "startedAt")),
     completedAt |-> ReadNullableNum(Get(v.e, "completedAt")),
     summary     |-> ReadNullableStr(Get(v.e, "summary")),
     error       |-> ReadNullableStr(Get(v.e, "error")),
     retryCount  |-> Get(v.e, "retryCount").n]

NodeToJson(n) ==
    JObj(<< <<"id", JStr(n.id)>>,
            <<"title", JStr(n.title)>>,
            <<"dependsOn", JArr([i \in DOMAIN n.dependsOn |-> JStr(n.dependsOn[i])])>> >>)

NodeFromJson(v) ==
    [id        |-> Get(v.e, "id").s,
     title     |-> Get(v.e, "title").s,
     dependsOn |-> LET a == Get(v.e, "dependsOn").a IN [i \in DOMAIN a |-> a[i].s]]

PlanToJson(p) ==
    IF p = Null THEN JNull
    ELSE JObj(<< <<"summary", JStr(Val(p).summary)>>,
                 <<"tasks", JArr([i \in DOMAIN Val(p).tasks |->
                                     NodeToJson(Val(p).tasks[i])])>> >>)

PlanFromJson(v) ==
    IF v.t = "null" THEN Null
    ELSE Some([summary |-> Get(v.e, "summary").s,
               tasks   |-> LET a == Get(v.e, "tasks").a
                           IN [i \in DOMAIN a |-> NodeFromJson(a[i])]])

\* state.tasks is a Record<string, TaskExecution>: the list of its
\* <<key, value>> members in own-key order
TasksToJson(tasks) ==
    JObj([i \in DOMAIN tasks |-> <<tasks[i][1], ExecToJson(tasks[i][2])>>])

TasksFromJson(v) == [i \in DOMAIN v.e |-> <<v.e[i][1], ExecFromJson(v.e[i][2])>>]

ToJson(s) ==
    JObj(<< <<"id", JStr(s.id)>>,
            <<"createdAt", JNum(s.createdAt)>>,
            <<"updatedAt", JNum(s.updatedAt)>>,
            <<"goal", JStr(s.goal)>>,
            <<"repo", JObj(<< <<"owner", JStr(s.repo.owner)>>,
                              <<"name", JStr(s.repo.name)>> >>)>>,
            <<"phase", JStr(s.phase)>>,
            <<"planning",
              JObj(<< <<"sessionId", NullableStr(s.planning.sessionId)>>,
                      <<"model", JStr(s.planning.model)>>,
                      <<"status", JStr(s.planning.status)>> >>
                   \o OptionalStr("error", s.planning.error))>>,
            <<"plan", PlanToJson(s.plan)>>,
            <<"tasks", TasksToJson(s.tasks)>>,
            <<"integration",
              JObj(<< <<"sessionId", NullableStr(s.integration.sessionId)>>,
                      <<"status", JStr(s.integration.status)>>,
                      <<"mergedBranch", NullableStr(s.integration.mergedBranch)>>,
                      <<"prUrl", NullableStr(s.integration.prUrl)>> >>
                   \o OptionalStr("error", s.integration.error))>> >>)

FromJson(v) ==
    [id          |-> Get(v.e, "id").s,
     createdAt   |-> Get(v.e, "createdAt").n,
     updatedAt   |-> Get(v.e, "updatedAt").n,
     goal        |-> Get(v.e, "goal").s,
     repo        |-> [owner |-> Get(Get(v.e, "repo").e, "owner").s,
                      name  |-> Get(Get(v.e, "repo").e, "name").s],
     phase       |-> Get(v.e, "phase").s,
     planning    |-> LET p == Get(v.e, "planning").e IN
                     [sessionId |-> ReadNullableStr(Get(p, "sessionId")),
                      model     |-> Get(p, "model").s,
                      status    |-> Get(p, "status").s,
                      error     |-> ReadOptionalStr(p, "error")],
     plan        |-> PlanFromJson(Get(v.e, "plan")),
     tasks       |-> TasksFromJson(Get(v.e, "tasks")),
     integration |-> LET g == Get(v.e, "integration").e IN
                     [sessionId    |-> ReadNullableStr(Get(g, "sessionId")),
                      status       |-> Get(g, "status").s,
                      mergedBranch |-> ReadNullableStr(Get(g, "mergedBranch")),
                      prUrl        |-> ReadNullableStr(Get(g, "prUrl")),
                      error        |-> ReadOptionalStr(g, "error")]]

\* JSON.stringify(state, null, 2) + "\n"
Serialize(s) == Render(ToJson(s)) \o <<Newline>>

-----------------------------------------------------------------------------
(* The project store.                                                      *)

ProjectId == "p1"
FinalPath(id) == id \o ".json"
TmpPath(id) == FinalPath(id) \o ".tmp"
Paths == {FinalPath(ProjectId), TmpPath(ProjectId)}

createProject(goal, repo, plannerModel, now) ==
    [id          |-> ProjectId,
     createdAt   |-> now,
     updatedAt   |-> now,
     goal        |-> goal,
     repo        |-> repo,
     phase       |-> "planning",
     planning    |-> [sessionId |-> Null, model |-> plannerModel,
                      status |-> "pending", error |-> Undefined],
     plan        |-> Null,
     tasks       |-> <<>>,
     integration |-> [sessionId |-> Null, status |-> "pending",
                      mergedBranch |-> Null, prUrl |-> Null, error |-> Undefined]]

\* The content of a file that saveProject writes is kept as the project being
\* written and the number of tokens of its text that have reached the file
\* (Null: all of them); Text is the text a reader of the file gets.
Whole(s) == [of |-> s, upto |-> Null]
Prefix(s, n) == [of |-> s, upto |-> Some(n)]
Text(content) ==
    IF content.upto = Null THEN Serialize(content.of)
    ELSE SubSeq(Serialize(content.of), 1, Val(content.upto))

\* loadProject: readFile + JSON.parse; null when either throws
loadProject(fs, id) ==
    IF ~fs[FinalPath(id)].exists THEN Null
    ELSE LET r == JsonParse(Text(fs[FinalPath(id)].content)) IN
         IF r.ok THEN Some(FromJson(r.v)) ELSE Null

\* saveProject, line 130: state.updatedAt = Date.now()
Stamp(s, now) == [s EXCEPT !.updatedAt = now]

\* saveProject, lines 131-132 carried out without interruption: the temporary
\* file is written in full and renamed over the final path
WriteAndRename(fs, s) ==
    [fs EXCEPT ![FinalPath(s.id)] = File(Whole(s)), ![TmpPath(s.id)] = Absent]

-----------------------------------------------------------------------------
(* Plans and branch names.                                                 *)

UpperCase == <<"A","B","C","D","E","F","G","H","I","J","K","L","M",
               "N","O","P","Q","R","S","T","U","V","W","X","Y","Z">>
LowerCase == <<"a","b","c","d","e","f","g","h","i","j","k","l","m",
               "n","o","p","q","r","s","t","u","v","w","x","y","z">>
Digits == {"0","1","2","3","4","5","6","7","8","9"}

\* String.prototype.toLowerCase, one character
ToLowerChar(c) ==
    IF \E i \in DOMAIN UpperCase : UpperCase[i] = c
    THEN LowerCase[CHOOSE i \in DOMAIN UpperCase : UpperCase[i] = c]
    ELSE c

IsSlugChar(c) == c \in Range(LowerCase) \cup Digits

RECURSIVE ReplaceRuns(_)
\* .replace(/[^a-z0-9]+/g, "-")
ReplaceRuns(cs) ==
    IF cs = <<>> THEN <<>>
    ELSE IF IsSlugChar(Head(cs)) THEN <<Head(cs)>> \o ReplaceRuns(Tail(cs))
    ELSE IF Tail(cs) # <<>> /\ ~IsSlugChar(Head(Tail(cs))) THEN ReplaceRuns(Tail(cs))
    ELSE <<"-">> \o ReplaceRuns(Tail(cs))

\* .replace(/^-|-$/g, "")
TrimHyphens(cs) ==
    LET a == IF cs # <<>> /\ Head(cs) = "-" THEN Tail(cs) ELSE cs
    IN IF a # <<>> /\ a[Len(a)] = "-" THEN SubSeq(a, 1, Len(a) - 1) ELSE a

SlugLimit == 40

slugify(cs) ==
    LET lower == [i \in DOMAIN cs |-> ToLowerChar(cs[i])]
        t == TrimHyphens(ReplaceRuns(lower))
    IN SubSeq(t, 1, Min(Len(t), SlugLimit))

RECURSIVE JoinChars(_)
\* Array.prototype.join(""): the characters of a list as one string
JoinChars(cs) ==
    IF Len(cs) = 0 THEN ""
    ELSE IF Len(cs) = 1 THEN cs[1]
    ELSE JoinChars(SubSeq(cs, 1, Len(cs) \div 2))
             \o JoinChars(SubSeq(cs, Len(cs) \div 2 + 1, Len(cs)))

\* the titles that occur in the plans, as character lists
Titles == { <<"A","d","d"," ","A","P","I">>,
            <<"F","i","x"," ","-","-"," ","U","I","!">>,
            <<"T","e","s","t","s">> }
TitleApi == "Add API"
TitleUi == "Fix -- UI!"
TitleTests == "Tests"

\* n times the character c
Repeat(c, n) == [i \in 1..n |-> c]

\* the lengths of a word around the limit of slugify
WordLengths == {0, 1, SlugLimit - 2, SlugLimit - 1, SlugLimit, SlugLimit + 1}

\* titles of every shape that slugify tells apart: something before the first
\* word, a word that is short or about as long as the limit, a separator, a
\* second word, something after it
SlugTitles ==
    {lead \o Repeat("A", n) \o sep \o word \o trail :
        lead \in {<<>>, <<"-">>, <<" ", " ">>},
        n \in WordLengths,
        sep \in {<<>>, <<" ">>, <<"-", "-">>, <<"!", " ">>},
        word \in {<<>>, <<"b">>, <<"7", "z">>},
        trail \in {<<>>, <<"-">>, <<"!">>}}

Chars(title) == CHOOSE cs \in Titles \cup SlugTitles : JoinChars(cs) = title

expectedBranchName(task) ==
    "oi/" \o task.id \o "-" \o JoinChars(slugify(Chars(task.title)))

Node(id, title, deps) == [id |-> id, title |-> title, dependsOn |-> deps]

PlanPair == <<Node("t1", TitleApi, <<>>), Node("t2", TitleUi, <<>>)>>
PlanChain == <<Node("t1", TitleApi, <<>>), Node("t2", TitleUi, <<"t1">>),
               Node("t3", TitleTests, <<"t2">>)>>
PlanDependentFirst == <<Node("t2", TitleUi, <<"t1">>), Node("t1", TitleApi, <<>>)>>
PlanJoin == <<Node("t1", TitleApi, <<>>), Node("t2", TitleUi, <<>>),
              Node("t3", TitleTests, <<"t1", "t2">>)>>
PlanIndexIds == <<Node("2", TitleApi, <<>>), Node("1", TitleUi, <<>>)>>

PlanEmpty == <<>>
PlanSelfLoop == <<Node("t1", TitleApi, <<"t1">>), Node("t2", TitleUi, <<>>)>>

PlanCycle == <<Node("t1", TitleApi, <<"t2">>), Node("t2", TitleUi, <<"t1">>)>>
PlanUnknownDep == <<Node("t1", TitleApi, <<"t9">>)>>
PlanDuplicate == <<Node("t1", TitleApi, <<>>), Node("t1", TitleUi, <<>>)>>

\* the plans a planner session or an edit may hand to validateDag
CandidatePlans == {PlanEmpty, PlanPair, PlanChain, PlanDependentFirst, PlanJoin,
                   PlanIndexIds, PlanSelfLoop, PlanCycle, PlanUnknownDep, PlanDuplicate}

-----------------------------------------------------------------------------
(* dag.ts: validateDag and its cycle detection.                            *)

\* Map.prototype.set / get on a map held as a function
MapSet(m, k, v) == [x \in DOMAIN m \cup {k} |-> IF x = k THEN v ELSE m[x]]

RECURSIVE Adjacency(_, _)
\* detectCycles, lines 106-109
Adjacency(tasks, adj) ==
    IF tasks = <<>> THEN adj
    ELSE Adjacency(Tail(tasks), MapSet(adj, Head(tasks).id, Head(tasks).dependsOn))

RECURSIVE PopComponent(_, _, _)
\* strongConnect, lines 134-140: pop the stack down to id
PopComponent(st, id, component) ==
    LET w == st.stack[Len(st.stack)]
        st1 == [st EXCEPT !.stack = SubSeq(@, 1, Len(@) - 1), !.onStack = @ \ {w}]
    IN IF w = id THEN [st |-> st1, component |-> Append(component, w)]
       ELSE PopComponent(st1, id, Append(component, w))

RECURSIVE strongConnect(_, _, _)
RECURSIVE VisitDeps(_, _, _, _)
\* strongConnect, lines 117-147
strongConnect(id, st, adj) ==
    LET st1 == [st EXCEPT !.indices = MapSet(@, id, st.index),
                          !.lowlinks = MapSet(@, id, st.index),
                          !.index = @ + 1,
                          !.stack = Append(@, id),
                          !.onStack = @ \cup {id}]
        st2 == VisitDeps(id, IF id \in DOMAIN adj THEN adj[id] ELSE <<>>, st1, adj)
    IN IF st2.lowlinks[id] = st2.indices[id]
       THEN LET popped == PopComponent(st2, id, <<>>)
            IN IF Len(popped.component) > 1
               THEN [popped.st EXCEPT !.cycleNodes = @ \o popped.component]
               ELSE popped.st
       ELSE st2
\* strongConnect, lines 124-131: the loop over the dependencies of id
VisitDeps(id, deps, st, adj) ==
    IF deps = <<>> THEN st
    ELSE LET dep == Head(deps)
             next ==
               IF dep \notin DOMAIN st.indices
               THEN LET sub == strongConnect(dep, st, adj)
                    IN [sub EXCEPT !.lowlinks[id] = Min(@, sub.lowlinks[dep])]
               ELSE IF dep \in st.onStack
                    THEN [st EXCEPT !.lowlinks[id] = Min(@, st.indices[dep])]
                    ELSE st
         IN VisitDeps(id, Tail(deps), next, adj)

RECURSIVE ConnectAll(_, _, _)
\* detectCycles, lines 150-154
ConnectAll(tasks, st, adj) ==
    IF tasks = <<>> THEN st
    ELSE ConnectAll(Tail(tasks),
                    IF Head(tasks).id \notin DOMAIN st.indices
                    THEN strongConnect(Head(tasks).id, st, adj) ELSE st,
                    adj)

detectCycles(tasks) ==
    ConnectAll(tasks,
               [index |-> 0, indices |-> <<>>, lowlinks |-> <<>>, onStack |-> {},
                stack |-> <<>>, cycleNodes |-> <<>>],
               Adjacency(tasks, <<>>)).cycleNodes

RECURSIVE DuplicateErrors(_, _)
\* validateDag, lines 11-17
DuplicateErrors(tasks, seen) ==
    IF tasks = <<>> THEN <<>>
    ELSE (IF Head(tasks).id \in seen
          THEN <<"Duplicate task ID: \"" \o Head(tasks).id \o "\"">> ELSE <<>>)
         \o DuplicateErrors(Tail(tasks), seen \cup {Head(tasks).id})

RECURSIVE UnknownOf(_, _, _)
UnknownOf(id, deps, ids) ==
    IF deps = <<>> THEN <<>>
    ELSE (IF Head(deps) \notin ids
          THEN <<"Task \"" \o id \o "\" depends on unknown task \"" \o Head(deps) \o "\"">>
          ELSE <<>>)
         \o UnknownOf(id, Tail(deps), ids)

RECURSIVE UnknownErrors(_, _)
\* validateDag, lines 20-26
UnknownErrors(tasks, ids) ==
    IF tasks = <<>> THEN <<>>
    ELSE UnknownOf(Head(tasks).id, Head(tasks).dependsOn, ids)
         \o UnknownErrors(Tail(tasks), ids)

RECURSIVE JoinWith(_, _)
\* Array.prototype.join
JoinWith(strs, sep) ==
    IF strs = <<>> THEN ""
    ELSE IF Tail(strs) = <<>> THEN Head(strs)
    ELSE Head(strs) \o sep \o JoinWith(Tail(strs), sep)

validateDag(tasks) ==
    LET ids == {tasks[i].id : i \in DOMAIN tasks}
        cycleNodes == detectCycles(tasks)
        errors == DuplicateErrors(tasks, {}) \o UnknownErrors(tasks, ids) \o
                  (IF Len(cycleNodes) > 0
                   THEN <<"Cycle detected involving tasks: " \o JoinWith(cycleNodes, ", ")>>
                   ELSE <<>>)
    IN [valid |-> errors = <<>>, errors |-> errors]

\* new Map(tasks.map((t) => [t.id, t])): the ids that have an entry, and the
\* entry of an id (the last task of the list with that id)
HasTask(tasks, id) == \E i \in DOMAIN tasks : tasks[i].id = id
TaskOf(tasks, id) ==
    tasks[CHOOSE i \in DOMAIN tasks :
              tasks[i].id = id /\ \A j \in DOMAIN tasks : tasks[j].id = id => j <= i]

Thrown(error) == [ok |-> FALSE, throws |-> error]

RECURSIVE getWave(_, _, _, _)
RECURSIVE DepWaves(_, _, _, _, _)
\* computeWaves, lines 47-60: getWave(id) with the memo waveIndex; calls are
\* the ids whose getWave is still on the call stack: a call for one of them
\* recurses without end until the stack overflows (RangeError); an id without
\* a task is a property read of undefined (TypeError)
getWave(id, tasks, waveIndex, calls) ==
    IF id \in DOMAIN waveIndex
    THEN [ok |-> TRUE, waveIndex |-> waveIndex, wave |-> waveIndex[id]]
    ELSE IF id \in calls THEN Thrown("RangeError")
    ELSE IF ~HasTask(tasks, id) THEN Thrown("TypeError")
    ELSE IF Len(TaskOf(tasks, id).dependsOn) = 0
    THEN [ok |-> TRUE, waveIndex |-> MapSet(waveIndex, id, 0), wave |-> 0]
    ELSE LET deps == DepWaves(TaskOf(tasks, id).dependsOn, tasks, waveIndex,
                              calls \cup {id}, 0)
         IN IF ~deps.ok THEN deps
            ELSE [ok |-> TRUE, waveIndex |-> MapSet(deps.waveIndex, id, deps.max + 1),
                  wave |-> deps.max + 1]
\* line 56: Math.max(...task.dependsOn.map((dep) => getWave(dep)))
DepWaves(deps, tasks, waveIndex, calls, max) ==
    IF deps = <<>> THEN [ok |-> TRUE, waveIndex |-> waveIndex, max |-> max]
    ELSE LET r == getWave(Head(deps), tasks, waveIndex, calls) IN
         IF ~r.ok THEN r
         ELSE DepWaves(Tail(deps), tasks, r.waveIndex, calls, Max(max, r.wave))

RECURSIVE WaveAll(_, _, _)
\* computeWaves, lines 62-64
WaveAll(rest, tasks, waveIndex) ==
    IF rest = <<>> THEN [ok |-> TRUE, waveIndex |-> waveIndex]
    ELSE LET r == getWave(Head(rest).id, tasks, waveIndex, {}) IN
         IF ~r.ok THEN r ELSE WaveAll(Tail(rest), tasks, r.waveIndex)

RECURSIVE Grow(_, _)
\* line 68: while (waves.length <= w) waves.push([])
Grow(waves, w) == IF Len(waves) <= w THEN Grow(Append(waves, <<>>), w) ELSE waves

RECURSIVE GroupByWave(_, _, _)
\* computeWaves, lines 66-70
GroupByWave(rest, waveIndex, waves) ==
    IF rest = <<>> THEN waves
    ELSE LET w == waveIndex[Head(rest).id] IN
         GroupByWave(Tail(rest), waveIndex,
                     [Grow(waves, w) EXCEPT ![w + 1] = Append(@, Head(rest))])

\* computeWaves: the groups, or the error it throws
computeWaves(tasks) ==
    LET r == WaveAll(tasks, tasks, <<>>) IN
    IF ~r.ok THEN r
    ELSE [ok |-> TRUE, waves |-> GroupByWave(tasks, r.waveIndex, <<>>)]

RECURSIVE visit(_, _, _)
RECURSIVE VisitEach(_, _, _)
\* topologicalSort, lines 83-92
visit(id, tasks, st) ==
    IF ~st.ok \/ id \in st.visited THEN st
    ELSE IF ~HasTask(tasks, id) THEN [st EXCEPT !.ok = FALSE]
    ELSE LET st1 == VisitEach(TaskOf(tasks, id).dependsOn, tasks,
                              [st EXCEPT !.visited = @ \cup {id}])
         IN IF ~st1.ok THEN st1
            ELSE [st1 EXCEPT !.result = Append(@, TaskOf(tasks, id))]
\* lines 88-90: for (const dep of task.dependsOn) visit(dep)
VisitEach(deps, tasks, st) ==
    IF deps = <<>> THEN st
    ELSE VisitEach(Tail(deps), tasks, visit(Head(deps), tasks, st))

RECURSIVE VisitTasks(_, _, _)
\* lines 94-96
VisitTasks(rest, tasks, st) ==
    IF rest = <<>> THEN st
    ELSE VisitTasks(Tail(rest), tasks, visit(Head(rest).id, tasks, st))

\* topologicalSort: ok and the result, or not ok (it throws a TypeError)
topologicalSort(tasks) ==
    VisitTasks(tasks, tasks, [ok |-> TRUE, visited |-> {}, result |-> <<>>])

\* displayPlan(plan) returns: computeWaves does not throw
Displayable(nodes) == computeWaves(nodes).ok

\* expectedBranchName at every task of the plans, computed once
BranchNames ==
    UNION {{<<nodes[i], expectedBranchName(nodes[i])>> : i \in DOMAIN nodes} :
               nodes \in CandidatePlans}

\* the plans that reach execution: those validateDag accepts (planner.ts,
\* lines 72-79; approver, lines 74-78) and approvePlan can display (its first
\* statement is displayPlan(plan), which calls computeWaves)
Plans == {nodes \in CandidatePlans : validateDag(nodes).valid /\ Displayable(nodes)}

NewExecution(id) ==
    [taskId |-> id, status |-> "pending", sessionId |-> Null, branchName |-> Null,
     startedAt |-> Null, completedAt |-> Null, summary |-> Null, error |-> Null,
     retryCount |-> 0]

RECURSIVE InitTasksReset(_, _)
\* an initialisation that tracks every task of the plan anew
InitTasksReset(tasks, nodes) ==
    IF nodes = <<>> THEN tasks
    ELSE InitTasksReset(ObjectSet(tasks, Head(nodes).id, NewExecution(Head(nodes).id)),
                        Tail(nodes))

RECURSIVE InitTasksRequeue(_, _)
\* an initialisation that puts the tasks found running back to pending
InitTasksRequeue(tasks, nodes) ==
    IF nodes = <<>> THEN tasks
    ELSE InitTasksRequeue(
             IF ~HasKey(tasks, Head(nodes).id)
             THEN ObjectSet(tasks, Head(nodes).id, NewExecution(Head(nodes).id))
             ELSE IF Get(tasks, Head(nodes).id).status = "running"
             THEN ObjectSet(tasks, Head(nodes).id,
                            [Get(tasks, Head(nodes).id) EXCEPT !.status = "pending"])
             ELSE tasks,
             Tail(nodes))

RECURSIVE InitTasks(_, _)
\* runExecution, lines 53-67: track every task of the plan not yet in state.tasks
InitTasks(tasks, nodes) ==
    IF nodes = <<>> THEN tasks
    ELSE InitTasks(IF HasKey(tasks, Head(nodes).id) THEN tasks
                   ELSE ObjectSet(tasks, Head(nodes).id, NewExecution(Head(nodes).id)),
                   Tail(nodes))

\* saveProject as one step of a process that is not killed during it
saveProject(s, fs, now) ==
    [state |-> Stamp(s, now), files |-> WriteAndRename(fs, Stamp(s, now))]

-----------------------------------------------------------------------------
(* The store under kills: saveProject step by step.                        *)

schedVars == <<maxParallel, pending, runningLen, toSpawn, toSpawnLen, pollQueue,
               session, created, everRunning, startRunning>>

NoFiles == [p \in Paths |-> Absent]

Phases == {"planning", "approval", "executing", "integrating", "completed", "failed"}

SampleRepo == [owner |-> "acme", name |-> "widget"]

\* a project as createProject returns it, with the time stamps of s
Fresh(s) ==
    [createProject("goal", SampleRepo, "model", s.createdAt) EXCEPT
        !.updatedAt = s.updatedAt]

\* the project as the phase controllers leave it before a save: planning
\* failed, plan awaiting approval, execution under way, integration done
StoreMutations(s) ==
    { [Fresh(s) EXCEPT !.phase = "failed", !.planning.status = "failed",
                       !.planning.error = Some("No plan")],
      [Fresh(s) EXCEPT !.phase = "approval", !.planning.status = "completed",
                       !.planning.sessionId = Some("s0"),
                       !.plan = Some([summary |-> "chain", tasks |-> PlanChain])],
      [Fresh(s) EXCEPT !.phase = "executing",
                       !.plan = Some([summary |-> "two", tasks |-> PlanIndexIds]),
                       !.tasks = ObjectSet(InitTasks(<<>>, PlanIndexIds), "2",
                            [NewExecution("2") EXCEPT
                                !.status = "failed", !.sessionId = Some("s1"),
                                !.branchName = Some("oi/2-add-api"),
                                !.startedAt = Some(s.createdAt),
                                !.completedAt = Some(s.updatedAt),
                                !.summary = Some("null"),
                                !.error = Some("Session completed with errors")])],
      [Fresh(s) EXCEPT !.phase = "completed", !.integration.status = "completed",
                       !.integration.mergedBranch = Some("oi/t1-add-api"),
                       !.integration.prUrl = Some("https://example.test/pr/1")] }

InitStore ==
    /\ clock \in 0..MaxClock
    /\ state = createProject("goal", SampleRepo, "model", clock)
    /\ pc = "st_idle"
    /\ files = NoFiles
    /\ committed = Null
    /\ maxParallel = 1
    /\ pending = <<>>
    /\ runningLen = 0
    /\ toSpawn = <<>>
    /\ toSpawnLen = 0
    /\ pollQueue = <<>>
    /\ session = <<>>
    /\ created = 0
    /\ everRunning = {}
    /\ startRunning = 0
    /\ call = Null

\* time passes between two operations on the store
Tick ==
    /\ pc = "st_idle"
    /\ clock < MaxClock
    /\ clock' = clock + 1
    /\ UNCHANGED <<call, state, pc, files, committed, schedVars>>

StoreMutate ==
    /\ pc = "st_idle"
    /\ \E s \in StoreMutations(state) : state' = s
    /\ UNCHANGED <<call, pc, files, clock, committed, schedVars>>

\* saveProject, lines 126-130: mkdir (the directory exists), the two paths,
\* state.updatedAt = Date.now()
SaveStamp ==
    /\ pc = "st_idle"
    /\ state' = Stamp(state, clock)
    /\ pc' = "st_open"
    /\ UNCHANGED <<call, files, clock, committed, schedVars>>

\* a save that writes the final path directly
WriteInPlace(id) == FinalPath(id)

\* the path fs.writeFile writes to (line 131)
WriteTarget(id) == TmpPath(id)

\* fs.writeFile opens its target and truncates it
SaveOpen ==
    /\ pc = "st_open"
    /\ files' = [files EXCEPT ![WriteTarget(state.id)] = File(Prefix(state, 0))]
    /\ pc' = "st_write"
    /\ UNCHANGED <<call, state, clock, committed, schedVars>>

\* the lengths a partly written file is observed at
CutPoints(text) == {Len(text) \div 2, Len(text) - 1, Len(text)}

\* fs.writeFile writes the text piece by piece
SaveWrite ==
    /\ pc = "st_write"
    /\ LET text == Serialize(state)
           have == Val(files[WriteTarget(state.id)].content.upto)
       IN \E n \in CutPoints(text) :
            /\ n > have
            /\ files' = [files EXCEPT ![WriteTarget(state.id)] =
                             File(IF n = Len(text) THEN Whole(state) ELSE Prefix(state, n))]
            /\ pc' = IF n = Len(text) THEN "st_rename" ELSE "st_write"
    /\ UNCHANGED <<call, state, clock, committed, schedVars>>

\* fs.rename(tmpPath, filePath), line 132
Rename(fs, id) ==
    [fs EXCEPT ![FinalPath(id)] = fs[TmpPath(id)], ![TmpPath(id)] = Absent]

SaveRename ==
    /\ pc = "st_rename"
    /\ files' = Rename(files, state.id)
    /\ committed' = Some(state)
    /\ pc' = "st_saved"
    /\ UNCHANGED <<call, state, clock, schedVars>>

\* saveProject returns to its caller
SaveReturn ==
    /\ pc = "st_saved"
    /\ pc' = "st_idle"
    /\ UNCHANGED <<call, state, files, clock, committed, schedVars>>

\* the process is killed at any step of saveProject or between two saves
StoreKill ==
    /\ pc \in {"st_idle", "st_open", "st_write", "st_rename", "st_saved"}
    /\ pc' = "st_dead"
    /\ state' = NoProject
    /\ UNCHANGED <<call, files, clock, committed, schedVars>>

\* the project is resumed with loadProject; with no loadable file the resume
\* ends at once (orchestrate.ts, lines 77-82)
StoreResume ==
    /\ pc = "st_dead"
    /\ \E got \in {loadProject(files, ProjectId)} :
         IF got = Null THEN pc' = "st_exit" /\ state' = NoProject
         ELSE pc' = "st_idle" /\ state' = Val(got)
    /\ UNCHANGED <<call, files, clock, committed, schedVars>>

NextStore ==
    \/ Tick
    \/ StoreMutate
    \/ SaveStamp
    \/ SaveOpen
    \/ SaveWrite
    \/ SaveRename
    \/ SaveReturn
    \/ StoreKill
    \/ StoreResume

SpecStore == InitStore /\ [][NextStore]_vars

-----------------------------------------------------------------------------
(* The control plane, as the scheduler observes it.                        *)

\* the stage of a remote session: none (no session), created (no prompt yet),
\* working, errored (an error event, no completion event yet), and the stages
\* with a terminal signal: done, done_failed (execution_complete), stopped
Stages == {"none", "created", "working", "errored", "done", "done_failed", "stopped"}
TerminalStages == {"done", "done_failed", "stopped"}

\* no status counts as starting up
NoStartUp == {}

\* pollTask, lines 216-219
StartingUp == {"pending", "warming", "syncing"}

Event(type, content, success, error) ==
    [type |-> type, content |-> content, success |-> success, error |-> error]
TokenEvent(cs) == Event("token", Some(cs), "absent", Undefined)
CompleteEvent == Event("execution_complete", Undefined, "true", Undefined)
FailedEvent == Event("execution_complete", Undefined, "false", Some("tests failed"))
ErrorEvent == Event("error", Undefined, "absent", Some("sandbox error"))

\* what getSession and getEvents can answer for a session at a stage:
\* throws (a transport failure), the sandbox status, the branch name and the
\* event window
Answer(throws, sandboxStatus, branchName, events) ==
    [throws |-> throws, sandboxStatus |-> sandboxStatus, branchName |-> branchName,
     events |-> events]

Answers(stage) ==
    {Answer(TRUE, "running", Null, <<>>)} \cup
    CASE stage = "created" ->
           {Answer(FALSE, sb, Null, <<>>) : sb \in StartingUp \cup {"ready"}}
      [] stage = "working" ->
           {Answer(FALSE, sb, Null, <<TokenEvent(<<"o">>)>>) :
                sb \in StartingUp \cup {"running", "ready"}}
      [] stage = "errored" ->
           {Answer(FALSE, sb, Null, <<TokenEvent(<<"o">>), ErrorEvent>>) :
                sb \in {"running", "ready"}}
      [] stage = "done" ->
           {Answer(FALSE, sb, Some("oi/remote"),
                   <<TokenEvent(<<"o">>), TokenEvent(<<"k">>), CompleteEvent>>) :
                sb \in {"syncing", "ready", "stopped"}}
      [] stage = "done_failed" ->
           {Answer(FALSE, sb, Null, <<TokenEvent(<<"o">>), FailedEvent>>) :
                sb \in {"syncing", "ready", "stopped"}}
      [] stage = "stopped" ->
           {Answer(FALSE, "stopped", Null, <<>>)}
      [] OTHER -> {}

\* an answer that carries the terminal signal past start-up
Retiring(a) ==
    /\ ~a.throws
    /\ a.sandboxStatus \notin StartingUp
    /\ \/ a.sandboxStatus = "stopped"
       \/ \E i \in DOMAIN a.events : a.events[i].type = "execution_complete"

-----------------------------------------------------------------------------
(* The execution scheduler.                                                *)

DEFAULT_MAX_PARALLEL == 3
SummaryLimit == 500

\* options.maxParallel as the orchestrate command passes it: a positive number
\* or undefined
MaxParallelOptions == {Undefined, Some(1)}

\* line 44: options.maxParallel ?? DEFAULT_MAX_PARALLEL
EffectiveMaxParallel(opt) == IF opt = Undefined THEN DEFAULT_MAX_PARALLEL ELSE Val(opt)

ObjectValues(tasks) == [i \in DOMAIN tasks |-> tasks[i][2]]
TaskIds(tasks) == [i \in DOMAIN tasks |-> tasks[i][1]]
StatusOf(tasks, id) == Get(tasks, id).status

\* Object.values(state.tasks).filter((t) => t.status === status), as ids
WithStatus(tasks, status) ==
    SeqFilterIds(TaskIds(tasks), {id \in Range(TaskIds(tasks)) : StatusOf(tasks, id) = status})

PlanNodes(s) == Val(s.plan).tasks
NodeOf(s, id) == PlanNodes(s)[CHOOSE i \in DOMAIN PlanNodes(s) : PlanNodes(s)[i].id = id]

\* a readiness test that lets a dependent start after a failed dependency
SatisfyingStatusesWithFailed == {"completed", "skipped", "failed"}

\* lines 83-86: the statuses of a dependency that let a dependent start
SatisfyingStatuses == {"completed", "skipped"}

DepSatisfied(tasks, depId) ==
    HasKey(tasks, depId) /\ StatusOf(tasks, depId) \in SatisfyingStatuses

\* a readiness test that starts nothing once some task has failed
ReadyUnlessFailed(s, pend) ==
    IF WithStatus(s.tasks, "failed") # <<>> THEN <<>>
    ELSE SeqFilterIds(pend, {id \in Range(pend) :
             \A i \in DOMAIN NodeOf(s, id).dependsOn :
                 DepSatisfied(s.tasks, NodeOf(s, id).dependsOn[i])})

\* lines 81-87
Ready(s, pend) ==
    SeqFilterIds(pend, {id \in Range(pend) :
        \A i \in DOMAIN NodeOf(s, id).dependsOn :
            DepSatisfied(s.tasks, NodeOf(s, id).dependsOn[i])})

\* Array.prototype.slice(0, end)
Slice0(a, end) ==
    LET e == IF end < 0 THEN Max(Len(a) + end, 0) ELSE Min(end, Len(a))
    IN SubSeq(a, 1, e)

\* ToSpawn without the subtraction of the running count
ToSpawnIgnoringRunning(ready, maxPar, running) == Slice0(ready, maxPar)

\* lines 90-91
ToSpawn(ready, maxPar, running) == Slice0(ready, maxPar - running)

SessionName(n) == "s" \o ToString(n)

\* a quiescence step that skips only the first pending task
SkipFirst(tasks, pend) ==
    ObjectSet(tasks, Head(pend),
              [Get(tasks, Head(pend)) EXCEPT
                  !.status = "skipped", !.error = Some("Skipped: dependency failed")])

RECURSIVE SkipAll(_, _)
\* lines 103-106
SkipAll(tasks, pend) ==
    IF pend = <<>> THEN tasks
    ELSE SkipAll(ObjectSet(tasks, Head(pend),
                    [Get(tasks, Head(pend)) EXCEPT
                        !.status = "skipped", !.error = Some("Skipped: dependency failed")]),
                 Tail(pend))

\* if (x) for a string that may be null or absent: the empty string is falsy
Truthy(x) == x # Null /\ x # Some("")

\* pollTask, lines 229-250: the effect of one event
ScanEvent(ev, acc) ==
    CASE ev.type = "token" /\ ev.content # Undefined ->
           [acc EXCEPT !.tokens = @ \o Val(ev.content)]
      [] ev.type = "execution_complete" ->
           [acc EXCEPT !.executionComplete = TRUE,
                       !.hasError = @ \/ ev.success = "false",
                       !.errorMsg = IF ev.success = "false" /\ Truthy(ev.error)
                                    THEN ev.error ELSE @]
      [] ev.type = "error" ->
           [acc EXCEPT !.hasError = TRUE,
                       !.errorMsg = IF Truthy(ev.error) THEN ev.error ELSE @]
      [] OTHER -> acc

RECURSIVE Scan(_, _)
\* pollTask, lines 228-251: one pass over the events
Scan(events, acc) ==
    IF events = <<>> THEN acc
    ELSE Scan(Tail(events), ScanEvent(Head(events), acc))

ScanStart == [executionComplete |-> FALSE, hasError |-> FALSE, errorMsg |-> Null,
              tokens |-> <<>>]

\* a summary that keeps the first characters of the text
SummaryFirst(tokens) ==
    JoinChars(IF Len(tokens) > SummaryLimit THEN SubSeq(tokens, 1, SummaryLimit) ELSE tokens)

\* lines 264-265
Summary(tokens) ==
    JoinChars(IF Len(tokens) > SummaryLimit
              THEN SubSeq(tokens, Len(tokens) - SummaryLimit + 1, Len(tokens))
              ELSE tokens)

\* a poll that never sees the terminal signal
pollTaskNeverDone(exec, a, now) == [exec |-> exec, saves |-> FALSE]

\* a poll that retires the task as failed when the control plane cannot be
\* reached
pollTaskFailClosed(exec, a, now) ==
    IF a.throws
    THEN [exec |-> [exec EXCEPT !.status = "failed", !.error = Some("poll failed"),
                                !.completedAt = Some(now)],
          saves |-> TRUE]
    ELSE [exec |-> exec, saves |-> FALSE]

\* pollTask: the task record after a poll answered by a, and whether the poll
\* saved the project
pollTask(exec, a, now) ==
    LET sc == Scan(a.events, ScanStart) IN
    IF exec.sessionId = Null \/ a.throws \/ a.sandboxStatus \in StartingUp
       \/ (~sc.executionComplete /\ a.sandboxStatus # "stopped")
    THEN [exec |-> exec, saves |-> FALSE]
    ELSE [exec |-> [exec EXCEPT
                      !.branchName = IF Truthy(a.branchName) THEN a.branchName ELSE @,
                      !.summary = Some(Summary(sc.tokens)),
                      !.status = IF sc.hasError THEN "failed" ELSE "completed",
                      !.error = IF sc.hasError
                                THEN (IF sc.errorMsg # Null THEN sc.errorMsg
                                      ELSE Some("Session completed with errors"))
                                ELSE @,
                      !.completedAt = Some(now)],
          saves |-> TRUE]

-----------------------------------------------------------------------------
(* The orchestrate command from the approval of the plan on: runExecution, *)
(* with kills of the process and resumes.                                  *)

PlanIds(nodes) == {nodes[i].id : i \in DOMAIN nodes}

\* the project as the approval step saves it (orchestrate.ts, lines 118-120)
Approved(nodes, now) ==
    [createProject("goal", SampleRepo, "model", now) EXCEPT
        !.planning.sessionId = Some("s0"),
        !.planning.status = "completed",
        !.plan = Some([summary |-> "plan", tasks |-> nodes]),
        !.phase = "executing"]

storeVars == <<files, committed>>
loopVars == <<pending, runningLen, toSpawn, toSpawnLen, pollQueue>>

Init ==
    /\ clock = 0
    /\ \E nodes \in Plans :
         /\ state = Approved(nodes, 0)
         /\ session = [id \in PlanIds(nodes) |-> "none"]
    /\ files = WriteAndRename(NoFiles, state)
    /\ committed = Some(state)
    /\ pc = "run"
    /\ \E opt \in MaxParallelOptions : maxParallel = EffectiveMaxParallel(opt)
    /\ pending = <<>>
    /\ runningLen = 0
    /\ toSpawn = <<>>
    /\ toSpawnLen = 0
    /\ pollQueue = <<>>
    /\ created = 0
    /\ everRunning = {}
    /\ startRunning = 0
    /\ call = Null

\* a save that changes the project in memory and leaves the disk alone
KeptInMemory(s) == state' = s /\ UNCHANGED storeVars

\* state' and the store after `await saveProject(s)`
Saved(s) ==
    \E r \in {saveProject(s, files, clock)} :
        /\ state' = r.state
        /\ files' = r.files
        /\ committed' = Some(r.state)

SetTask(s, id, exec) == [s EXCEPT !.tasks = ObjectSet(@, id, exec)]

\* runExecution, lines 43-50
RunStart ==
    /\ pc = "run"
    /\ Saved([state EXCEPT !.phase = "executing"])
    /\ pc' = "init"
    /\ UNCHANGED <<call, clock, schedVars>>

\* runExecution, lines 52-73
RunInit ==
    /\ pc = "init"
    /\ Saved([state EXCEPT !.tasks = InitTasks(@, PlanNodes(state))])
    /\ pc' = "loop"
    /\ UNCHANGED <<call, clock, schedVars>>

\* runExecution, lines 76-91: the snapshots of one iteration
LoopHead ==
    /\ pc = "loop"
    /\ LET pend == WithStatus(state.tasks, "pending")
           running == WithStatus(state.tasks, "running")
           spawn == ToSpawn(Ready(state, pend), maxParallel, Len(running))
       IN /\ pending' = pend
          /\ runningLen' = Len(running)
          /\ toSpawn' = spawn
          /\ toSpawnLen' = Len(spawn)
    /\ pc' = "spawn"
    /\ UNCHANGED <<call, state, storeVars, clock, maxParallel, pollQueue, session,
                   created, everRunning, startRunning>>

\* spawnTask, lines 155-157
Started(exec, now) == [exec EXCEPT !.status = "running", !.startedAt = Some(now)]

\* a catch block that puts the task back to pending for another attempt
SpawnFailedRetry(exec, message, now) ==
    [exec EXCEPT !.status = "pending", !.error = Some(message)]

\* spawnTask, the catch block, lines 188-191
SpawnFailed(exec, message, now) ==
    [exec EXCEPT !.status = "failed", !.error = Some(message), !.completedAt = Some(now)]

\* line 163: expectedBranchName(task)
BranchOf(task) == (CHOOSE p \in BranchNames : p[1] = task)[2]

\* spawnTask, lines 155-157, for the next task of toSpawn
SpawnBegin ==
    /\ pc = "spawn"
    /\ toSpawn # <<>>
    /\ LET id == Head(toSpawn) IN
         /\ state' = SetTask(state, id, Started(Get(state.tasks, id), clock))
         /\ everRunning' = everRunning \cup {id}
    /\ pc' = "create"
    /\ UNCHANGED <<call, storeVars, clock, maxParallel, loopVars, session, created, startRunning>>

\* a record of the session that stays in memory
RecordInMemory(s) == state' = s /\ UNCHANGED storeVars

\* the session id is assigned and `await saveProject(state)` follows (spawnTask,
\* lines 169-171; runPlanning, lines 42-43; runIntegration, lines 79-80)
RecordSession(s) == Saved(s)

\* spawnTask, lines 160-167: createSession returns the id of a new session, or
\* it throws and the catch block runs
SpawnCreate ==
    /\ pc = "create"
    /\ LET id == Head(toSpawn)
           exec == Get(state.tasks, id)
       IN \/ /\ created' = created + 1
             /\ session' = [session EXCEPT ![id] = "created"]
             /\ pc' = "record"
             /\ UNCHANGED <<state, storeVars, toSpawn>>
          \/ /\ Saved(SetTask(state, id, SpawnFailed(exec, "createSession failed", clock)))
             /\ toSpawn' = Tail(toSpawn)
             /\ pc' = "spawn"
             /\ UNCHANGED <<created, session>>
    /\ UNCHANGED <<call, clock, maxParallel, pending, runningLen, toSpawnLen,
                   pollQueue, everRunning, startRunning>>

\* spawnTask, lines 169-171: the session id and the expected branch name are
\* recorded and saved
SpawnRecord ==
    /\ pc = "record"
    /\ LET id == Head(toSpawn) IN
         RecordSession(SetTask(state, id,
             [Get(state.tasks, id) EXCEPT
                 !.sessionId = Some(SessionName(created)),
                 !.branchName = Some(BranchOf(NodeOf(state, id)))]))
    /\ pc' = "prompt"
    /\ UNCHANGED <<call, clock, schedVars>>

\* spawnTask, lines 173-186, or the catch block when sendPrompt throws
SpawnPrompt ==
    /\ pc = "prompt"
    /\ LET id == Head(toSpawn) IN
         \/ /\ session' = [session EXCEPT ![id] = "working"]
            /\ UNCHANGED <<call, state, storeVars>>
         \/ /\ Saved(SetTask(state, id,
                   SpawnFailed(Get(state.tasks, id), "sendPrompt failed", clock)))
            /\ UNCHANGED session
    /\ toSpawn' = Tail(toSpawn)
    /\ pc' = "spawn"
    /\ UNCHANGED <<call, clock, maxParallel, pending, runningLen, toSpawnLen,
                   pollQueue, created, everRunning, startRunning>>

\* runExecution, lines 99-111: quiescence
Quiesce ==
    /\ pc = "spawn"
    /\ toSpawn = <<>>
    /\ runningLen = 0 /\ toSpawnLen = 0
    /\ IF pending # <<>>
       THEN Saved([state EXCEPT !.tasks = SkipAll(@, pending)])
       ELSE UNCHANGED <<call, state, storeVars>>
    /\ pc' = "report"
    /\ UNCHANGED <<call, clock, schedVars>>

\* runExecution, lines 113-116: the sleep of POLL_INTERVAL_MS, during which time
\* passes, then the list of running tasks
Sleep ==
    /\ pc = "spawn"
    /\ toSpawn = <<>>
    /\ ~(runningLen = 0 /\ toSpawnLen = 0)
    /\ clock' = Min(clock + 1, MaxClock)
    /\ pollQueue' = WithStatus(state.tasks, "running")
    /\ pc' = "poll"
    /\ UNCHANGED <<call, state, storeVars, maxParallel, pending, runningLen,
                   toSpawn, toSpawnLen, session, created, everRunning, startRunning>>

\* the stages the remote agent of a session can move to
NextStages(stage) ==
    CASE stage = "created" -> {"errored", "stopped"}
      [] stage = "working" -> {"errored", "stopped", "done", "done_failed"}
      [] stage = "errored" -> {"done_failed", "stopped"}
      [] OTHER -> {}

\* runExecution, line 117: pollTask for the next running task; its session has
\* meanwhile stayed at its stage or moved on to `stage`, and answers a
Poll(id, stage, a) ==
    /\ pc = "poll"
    /\ pollQueue # <<>>
    /\ id = Head(pollQueue)
    /\ stage \in {session[id]} \cup NextStages(session[id])
    /\ a \in Answers(stage)
    /\ session' = [session EXCEPT ![id] = stage]
    /\ LET r == pollTask(Get(state.tasks, id), a, clock) IN
         IF r.saves THEN Saved(SetTask(state, id, r.exec))
         ELSE UNCHANGED <<call, state, storeVars>>
    /\ pollQueue' = Tail(pollQueue)
    /\ UNCHANGED <<call, pc, clock, maxParallel, pending, runningLen, toSpawn,
                   toSpawnLen, created, everRunning, startRunning>>

PollTask ==
    \E id \in DOMAIN session : \E stage \in Stages : \E a \in Answers(stage) :
        Poll(id, stage, a)

\* runExecution, lines 120-121
PollEnd ==
    /\ pc = "poll"
    /\ pollQueue = <<>>
    /\ Saved(state)
    /\ pc' = "loop"
    /\ UNCHANGED <<call, clock, schedVars>>

\* a report that raises as soon as one task failed
AnyFailed(tasks) == Len(WithStatus(tasks, "failed")) > 0

\* line 139
AllFailed(tasks) ==
    Len(WithStatus(tasks, "failed")) > 0 /\ Len(WithStatus(tasks, "completed")) = 0

\* runExecution, lines 124-143
Report ==
    /\ pc = "report"
    /\ IF AllFailed(state.tasks)
       THEN Saved([state EXCEPT !.phase = "failed"]) /\ pc' = "raised"
       ELSE UNCHANGED <<call, state, storeVars>> /\ pc' = "returned"
    /\ UNCHANGED <<call, clock, schedVars>>

\* the positions at which Kill ends the process; a kill between createSession
\* and the record of its session is the action KillUnrecorded
RunPcs == {"run", "init", "loop", "spawn", "create", "prompt", "poll", "report",
           "returned"}

\* the process is killed
Kill ==
    /\ pc \in RunPcs
    /\ pc' = "dead"
    /\ state' = NoProject
    /\ maxParallel' = DEFAULT_MAX_PARALLEL
    /\ pending' = <<>>
    /\ runningLen' = 0
    /\ toSpawn' = <<>>
    /\ toSpawnLen' = 0
    /\ pollQueue' = <<>>
    /\ startRunning' = 0
    /\ UNCHANGED <<call, storeVars, clock, session, created, everRunning>>

\* `orchestrate --resume` loads the project and, in phase executing, enters
\* runExecution again (orchestrate.ts, lines 77-83 and 135)
Resume ==
    /\ pc = "dead"
    /\ \E got \in {loadProject(files, ProjectId)} :
         /\ state' = Val(got)
         /\ pc' = IF Val(got).phase = "executing" THEN "run" ELSE "exit"
         /\ startRunning' = Len(WithStatus(Val(got).tasks, "running"))
    /\ \E opt \in MaxParallelOptions : maxParallel' = EffectiveMaxParallel(opt)
    /\ UNCHANGED <<call, storeVars, clock, loopVars, session, created, everRunning>>

Next ==
    \/ RunStart
    \/ RunInit
    \/ LoopHead
    \/ SpawnBegin
    \/ SpawnCreate
    \/ SpawnRecord
    \/ SpawnPrompt
    \/ Quiesce
    \/ Sleep
    \/ PollTask
    \/ PollEnd
    \/ Report
    \/ Kill
    \/ Resume

Spec == Init /\ [][Next]_vars

-----------------------------------------------------------------------------
(* Properties of the scheduler (specification Spec).                       *)

\* a process holds the project in memory
Alive == pc # "dead"

Tracked == IF Alive THEN Range(TaskIds(state.tasks)) ELSE {}
CountOf(status) == Len(WithStatus(state.tasks, status))

\* the plan is two tasks without dependencies, both tracked
TwoIndependent ==
    /\ Len(PlanNodes(state)) = 2
    /\ \A i \in 1..2 : PlanNodes(state)[i].dependsOn = <<>>
    /\ Len(state.tasks) = 2

\* with maxParallel = 1, `second` has left pending only once `first` reached
\* completed or failed
OneAtATime(first, second) ==
    StatusOf(state.tasks, second) # "pending"
        => StatusOf(state.tasks, first) \in {"completed", "failed"}

\* the bound of C1: in a run started with no task running, the number of
\* running tasks never exceeds maxParallel
RunningBounded == Alive /\ startRunning = 0 => CountOf("running") <= maxParallel

\* C1 (as amended): in runExecution started with maxParallel >= 1 from a
\* project with no running task, at every moment the number of tasks with
\* status running is at most maxParallel; with maxParallel = 1 and two
\* independent ready tasks exactly one is spawned, the first in the
\* enumeration order of state.tasks (plan order, except that ids that are
\* array indices come first, in ascending order), and the other stays pending
\* until the first reaches completed or failed.
BoundedConcurrency ==
    /\ RunningBounded
    /\ Alive /\ startRunning = 0 /\ maxParallel = 1 /\ TwoIndependent
         => OneAtATime(TaskIds(state.tasks)[1], TaskIds(state.tasks)[2])

\* C1 as stated: the task spawned first is the first one of the plan.
BoundedConcurrencyPlanOrder ==
    /\ RunningBounded
    /\ Alive /\ startRunning = 0 /\ maxParallel = 1 /\ TwoIndependent
         => OneAtATime(PlanNodes(state)[1].id, PlanNodes(state)[2].id)

\* maxParallel = 1, two independent tasks: one is running, the other one waits
BoundedConcurrencyWitness ==
    /\ pc = "poll" /\ startRunning = 0 /\ maxParallel = 1 /\ TwoIndependent
    /\ StatusOf(state.tasks, TaskIds(state.tasks)[1]) = "running"
    /\ StatusOf(state.tasks, TaskIds(state.tasks)[2]) = "pending"
    /\ session[TaskIds(state.tasks)[1]] = "working"

\* a step inside one process, with the same tasks tracked before and after
InProcess ==
    /\ pc # "dead" /\ pc' # "dead"
    /\ TaskIds(state.tasks) = TaskIds(state'.tasks)

DependsOn(id) == Range(NodeOf(state, id).dependsOn)

\* C2: a task changes from pending to running only when every task in its
\* dependsOn has status completed; no task is spawned while one of its
\* dependencies is pending, running, failed or skipped. Every task chosen for
\* spawning in an iteration has all its dependencies completed from the
\* start of the iteration on.
DependencyGating ==
    [][/\ InProcess =>
            \A id \in Range(TaskIds(state.tasks)) :
                StatusOf(state.tasks, id) = "pending" /\ StatusOf(state'.tasks, id) = "running"
                    => \A dep \in DependsOn(id) :
                           /\ HasKey(state.tasks, dep)
                           /\ StatusOf(state.tasks, dep) = "completed"
       /\ pc' \in {"spawn", "create", "record", "prompt"} =>
            \A i \in DOMAIN toSpawn' : \A dep \in Range(NodeOf(state', toSpawn'[i]).dependsOn) :
                StatusOf(state'.tasks, dep) = "completed"]_vars

\* a task with dependencies is running in its session
DependencyGatingWitness ==
    /\ pc = "poll"
    /\ \E id \in Tracked :
         /\ StatusOf(state.tasks, id) = "running"
         /\ DependsOn(id) # {}
         /\ session[id] = "working"

RECURSIVE Ancestors(_, _)
\* the tasks that id depends on, directly or transitively, besides those of seen
Ancestors(id, seen) ==
    LET new == DependsOn(id) \ seen
        RECURSIVE Walk(_, _)
        Walk(todo, acc) ==
            IF todo = {} THEN acc
            ELSE LET d == CHOOSE x \in todo : TRUE
                 IN Walk(todo \ {d}, IF d \in acc THEN acc ELSE Ancestors(d, acc \cup {d}))
    IN Walk(new, seen)

\* the direct and transitive dependencies of id
TransitiveDeps(id) == Ancestors(id, {})

\* runExecution has left its loop
Exited == {"report", "returned", "raised"}

\* C3: for a validated plan, if a task ends failed then, when runExecution
\* exits, every task that depends on it directly or transitively has status
\* skipped with error "Skipped: dependency failed", and none of those
\* dependents was ever running.
FailureCascade ==
    pc \in Exited =>
        \A f \in Tracked : StatusOf(state.tasks, f) = "failed" =>
            \A d \in Tracked : f \in TransitiveDeps(d) =>
                /\ StatusOf(state.tasks, d) = "skipped"
                /\ Get(state.tasks, d).error = Some("Skipped: dependency failed")
                /\ d \notin everRunning

\* runExecution has exited with a failed task and a task skipped that depends
\* on it only through a third task
FailureCascadeWitness ==
    /\ pc \in {"returned", "raised"}
    /\ \E f \in Tracked : \E d \in Tracked :
         /\ StatusOf(state.tasks, f) = "failed"
         /\ f \in TransitiveDeps(d) /\ f \notin DependsOn(d)
         /\ StatusOf(state.tasks, d) = "skipped"

Edges == {<<"pending", "running">>, <<"pending", "skipped">>,
          <<"running", "completed">>, <<"running", "failed">>}
Terminal == {"completed", "failed", "skipped"}

\* the changes between two saved versions: a spawn whose createSession throws
\* goes from pending through running to failed between two saves
SavedEdges == Edges \cup {<<"pending", "failed">>}

\* from the tasks `before` to the tasks `after`, every status stays or follows
\* an edge, and a task newly tracked is pending
StepAlong(edges, before, after) ==
    /\ Range(TaskIds(before)) \subseteq Range(TaskIds(after))
    /\ \A id \in Range(TaskIds(after)) :
         IF HasKey(before, id)
         THEN \/ StatusOf(after, id) = StatusOf(before, id)
              \/ <<StatusOf(before, id), StatusOf(after, id)>> \in edges
         ELSE StatusOf(after, id) = "pending"

\* a terminal status of `before` is the status of `after`
TerminalKept(before, after) ==
    \A id \in Range(TaskIds(before)) :
        StatusOf(before, id) \in Terminal
            => HasKey(after, id) /\ StatusOf(after, id) = StatusOf(before, id)

\* C4: over any run of the scheduler (including resumes) the only status
\* changes of a TaskExecution are pending -> running, running -> completed,
\* running -> failed and pending -> skipped; once a task is completed, failed
\* or skipped its status never changes again. In a process every step
\* follows these edges; the saved versions follow them too (with running
\* passed between two saves when createSession throws); a terminal status in
\* memory is the saved one, stays the saved one, and a resumed process
\* starts from the saved statuses.
TaskLifecycle ==
    [][/\ pc # "dead" /\ pc' # "dead" =>
            /\ StepAlong(Edges, state.tasks, state'.tasks)
            /\ TerminalKept(state.tasks, state'.tasks)
            /\ TerminalKept(state'.tasks, Val(committed').tasks)
       /\ StepAlong(SavedEdges, Val(committed).tasks, Val(committed').tasks)
       /\ TerminalKept(Val(committed).tasks, Val(committed').tasks)
       /\ pc = "dead" /\ pc' # "dead" => state'.tasks = Val(committed).tasks]_vars

\* a run resumed with tasks running has exited with a completed, a failed and
\* a skipped task
TaskLifecycleWitness ==
    /\ pc = "returned" /\ startRunning > 0
    /\ CountOf("completed") > 0 /\ CountOf("failed") > 0 /\ CountOf("skipped") > 0

\* the step in which createSession or sendPrompt throws for the task id
SpawnFailure(id) ==
    /\ pc \in {"create", "prompt"} /\ pc' = "spawn"
    /\ id = Head(toSpawn)
    /\ session'[id] # "working"

\* C5: when createSession or sendPrompt fails while spawning a task, that
\* task is set to failed with the error message recorded and the state is
\* saved; the task is never spawned again; and the scheduler loop goes on
\* with the other tasks instead of raising.
SpawnFailureIsolation ==
    [][/\ \A id \in Tracked : SpawnFailure(id) =>
            /\ StatusOf(state'.tasks, id) = "failed"
            /\ Get(state'.tasks, id).error \in
                   {Some("createSession failed"), Some("sendPrompt failed")}
            /\ committed' = Some(state')
            /\ loadProject(files', ProjectId) = Some(state')
            /\ toSpawn' = Tail(toSpawn)
            /\ \A other \in Tracked \ {id} :
                   Get(state'.tasks, other) = Get(state.tasks, other)
       /\ \A id \in Range(TaskIds(Val(committed).tasks)) :
            StatusOf(Val(committed).tasks, id) = "failed" =>
                /\ Get(Val(committed').tasks, id).status = "failed"
                /\ Get(Val(committed').tasks, id).sessionId
                       = Get(Val(committed).tasks, id).sessionId
                /\ pc' # "dead" => /\ StatusOf(state'.tasks, id) = "failed"
                                   /\ id \notin Range(toSpawn')
       /\ pc' = "raised" => pc = "report"]_vars

\* a task failed at spawn and a task spawned later is running or completed
SpawnFailureIsolationWitness ==
    /\ Alive
    /\ \E a \in Tracked : \E b \in Tracked :
         /\ Get(state.tasks, a).error \in
                {Some("createSession failed"), Some("sendPrompt failed")}
         /\ StatusOf(state.tasks, a) = "failed"
         /\ StatusOf(state.tasks, b) \in {"running", "completed"}
         /\ Get(state.tasks, b).sessionId # Null
         /\ Get(state.tasks, a).sessionId # Get(state.tasks, b).sessionId
         /\ a \notin TransitiveDeps(b)
         /\ Get(state.tasks, a).completedAt # Null

CompletedNone == CountOf("completed") = 0

\* C6 (as amended): runExecution raises, with the project phase set to failed
\* and saved, if and only if zero tasks ended completed and at least one
\* task ended failed; otherwise (at least one task completed, or no task
\* failed) it returns normally without setting phase to failed.
RaisesIffNoneCompletedSomeFailed ==
    /\ pc = "raised" =>
          /\ CompletedNone /\ CountOf("failed") > 0
          /\ state.phase = "failed" /\ committed = Some(state)
    /\ pc = "returned" =>
          /\ ~(CompletedNone /\ CountOf("failed") > 0)
          /\ state.phase = "executing"

\* C6 as stated: runExecution raises exactly when zero tasks ended completed.
RaisesIffNoneCompleted ==
    /\ pc = "raised" =>
          /\ CompletedNone
          /\ state.phase = "failed" /\ committed = Some(state)
    /\ pc = "returned" =>
          /\ ~CompletedNone
          /\ state.phase = "executing"

\* runExecution has returned normally after a partial failure
RaisesWitness ==
    /\ pc = "returned"
    /\ CountOf("completed") > 0 /\ CountOf("failed") > 0

-----------------------------------------------------------------------------
(* One uninterrupted run of runExecution whose sessions end (LiveSpec).    *)

\* the steps of a process that is not killed
NextRun ==
    \/ RunStart
    \/ RunInit
    \/ LoopHead
    \/ SpawnBegin
    \/ SpawnCreate
    \/ SpawnRecord
    \/ SpawnPrompt
    \/ Quiesce
    \/ Sleep
    \/ PollTask
    \/ PollEnd
    \/ Report

\* a poll of the task id that getSession and getEvents answer with the
\* terminal signal of its session
PollRetire(id) ==
    \E stage \in TerminalStages : \E a \in Answers(stage) :
        Retiring(a) /\ Poll(id, stage, a)

AllIds == UNION {PlanIds(nodes) : nodes \in Plans}

\* the process keeps running, and every session that keeps being polled
\* eventually answers a poll with its terminal signal
LiveSpec ==
    /\ Init
    /\ [][NextRun]_vars
    /\ WF_vars(NextRun)
    /\ \A id \in AllIds : SF_vars(PollRetire(id))

HasFailedDependency(id) ==
    \E f \in TransitiveDeps(id) : StatusOf(state.tasks, f) = "failed"

\* C7: assuming every spawned session eventually yields a terminal signal,
\* every task none of whose transitive dependencies fails is eventually
\* spawned and ends completed or failed, however many unrelated tasks fail
\* or fail to spawn: the run reaches its end with every such task spawned
\* and completed or failed.
SiblingIsolation ==
    <>(/\ pc \in {"returned", "raised"}
       /\ \A id \in Tracked :
            ~HasFailedDependency(id) =>
                /\ id \in everRunning
                /\ StatusOf(state.tasks, id) \in {"completed", "failed"})

\* runExecution has returned with a task that failed to spawn and another
\* task, not depending on it, that was spawned and completed
SiblingIsolationWitness ==
    /\ pc = "returned"
    /\ \E f \in Tracked, id \in Tracked :
          /\ f # id /\ f \notin TransitiveDeps(id)
          /\ StatusOf(state.tasks, f) = "failed"
          /\ Get(state.tasks, f).sessionId = Null
          /\ ~HasFailedDependency(id)
          /\ id \in everRunning
          /\ StatusOf(state.tasks, id) = "completed"

\* C8: for a validated plan and maxParallel >= 1, assuming every running
\* session eventually produces a terminal signal and polls eventually
\* succeed, the runExecution loop terminates, and when it exits no task is
\* pending or running.
SchedulerTermination ==
    /\ <>(pc \in {"returned", "raised"})
    /\ [](pc \in Exited => CountOf("pending") = 0 /\ CountOf("running") = 0)

\* runExecution has returned after polls that did not retire a task at once:
\* every task of a three-task plan is completed, failed or skipped
SchedulerTerminationWitness ==
    /\ pc = "returned" /\ maxParallel >= 1
    /\ Len(state.tasks) = 3
    /\ \A id \in Tracked : StatusOf(state.tasks, id) \in Terminal
    /\ \E id \in Tracked : Get(state.tasks, id).startedAt # Get(state.tasks, id).completedAt

-----------------------------------------------------------------------------
(* Properties of the store (specification SpecStore).                      *)

FinalFile == files[FinalPath(ProjectId)]
TmpFile == files[TmpPath(ProjectId)]

\* C9: if the process may crash at any step of saveProject, then at every
\* moment the final file <id>.json is either absent (no save has reached its
\* rename) or holds the complete serialization of the state of the last save
\* that reached its rename, an earlier or the current saveProject; a reader
\* never sees a partially written project, and a crash in the middle of a
\* write leaves the previous version intact.
AtomicSave ==
    IF committed = Null THEN ~FinalFile.exists
    ELSE /\ FinalFile.exists
         /\ Text(FinalFile.content) = Serialize(Val(committed))
         /\ loadProject(files, ProjectId) = committed

\* the process was killed while writing a new version: the temporary file
\* holds part of its text, the final file holds the previous version
AtomicSaveWitness ==
    /\ pc = "st_dead"
    /\ committed # Null
    /\ TmpFile.exists /\ TmpFile.content.upto # Null
    /\ Val(TmpFile.content.upto) > 0
    /\ TmpFile.content.of # Val(committed)
    /\ ~JsonParse(Text(TmpFile.content)).ok
    /\ FinalFile.exists

\* C10: loadProject(id) after saveProject(project) returns a state equal to
\* project in every field, the nested tasks map included, and across any
\* sequence of saves of one project updatedAt never decreases (the clock
\* read by Date.now() does not go back).
StoreRoundTrip ==
    /\ [](pc = "st_saved" =>
            /\ loadProject(files, state.id) = Some(state)
            /\ state.updatedAt = clock)
    /\ [][committed # Null /\ committed' # Null
            => Val(committed').updatedAt >= Val(committed).updatedAt]_vars

\* a project with tracked tasks has been saved after its creation time and
\* loads back as it is in memory
StoreRoundTripWitness ==
    /\ pc = "st_saved"
    /\ state.tasks # <<>>
    /\ state.updatedAt > state.createdAt
    /\ loadProject(files, state.id) = Some(state)


-----------------------------------------------------------------------------
(* json-extractor.ts: extractJson.  A text is a list of units: a unit is   *)
(* one of the characters that the extractor or JSON.parse tells apart, or  *)
(* a word (a run of other characters).  Two words are never adjacent and   *)
(* the only word that starts with "json" is "json".                        *)

\* the backquote character (U+0060), which a TLA+ string cannot hold, is
\* written as the unit "'"; no text of the model holds an apostrophe
Backtick == "'"
Quote == "\""
Backslash == "\\"
Space == " "
LineFeed == "\n"
WhiteSpace == {Space, LineFeed}
Structural == {"{", "}", "[", "]", ":", ","}

\* the words that JSON.parse reads as numbers
NumberWords == {ToString(n) : n \in NumberRange}

\* the least element of a set of indices, or 0 for the empty set
Least(S) == IF S = {} THEN 0 ELSE CHOOSE j \in S : \A k \in S : j <= k

IsFenceAt(text, i) ==
    /\ i + 2 <= Len(text)
    /\ text[i] = Backtick /\ text[i + 1] = Backtick /\ text[i + 2] = Backtick

\* the first index from i on where ``` starts, or 0
FenceFrom(text, i) == Least({j \in i..Len(text) : IsFenceAt(text, j)})

\* \s*: the index after the white space that starts at i
SkipSpace(text, i) ==
    Least({j \in i..(Len(text) + 1) : j > Len(text) \/ text[j] \notin WhiteSpace})

\* (?:json)? at index i: the index after the tag
SkipTag(text, i) == IF i <= Len(text) /\ text[i] = "json" THEN i + 1 ELSE i

RECURSIVE FenceMatchFrom(_, _)
\* text.match(/```(?:json)?\s*\n?([\s\S]*?)```/), line 18: group 1 of the
\* leftmost match that opens at i or later, or Null
FenceMatchFrom(text, i) ==
    LET open == FenceFrom(text, i) IN
    IF open = 0 THEN Null
    ELSE LET from == SkipSpace(text, SkipTag(text, open + 3))
             close == FenceFrom(text, from)
         IN IF close = 0 THEN FenceMatchFrom(text, open + 1)
            ELSE Some(SubSeq(text, from, close - 1))

\* String.prototype.trim
Trim(cs) ==
    LET first == SkipSpace(cs, 1)
        last == Least({j \in 0..Len(cs) :
                          \A k \in (j + 1)..Len(cs) : cs[k] \in WhiteSpace})
    IN SubSeq(cs, first, last)

\* JSON.parse reads a text unit by unit: the index of the next unit, the
\* tokens read so far, the string literal being read (Null outside one) and
\* whether the text is still well formed
LexStart == [i |-> 1, toks |-> <<>>, str |-> Null, ok |-> TRUE]

\* one step of the tokenizer of JSON.parse (white space between tokens is
\* dropped; a unit that starts no token ends the reading)
LexStep(cs, st) ==
    IF ~st.ok \/ st.i > Len(cs) THEN st
    ELSE LET ch == cs[st.i] IN
         IF st.str # Null THEN
             CASE ch = Quote ->
                    [st EXCEPT !.i = @ + 1, !.str = Null,
                               !.toks = Append(@, StrTok(Val(st.str)))]
               [] ch = Backslash ->
                    IF st.i + 1 <= Len(cs) /\ cs[st.i + 1] \in {Quote, Backslash}
                    THEN [st EXCEPT !.i = @ + 2, !.str = Some(Val(@) \o cs[st.i + 1])]
                    ELSE [st EXCEPT !.ok = FALSE]
               [] ch = LineFeed -> [st EXCEPT !.ok = FALSE]
               [] OTHER -> [st EXCEPT !.i = @ + 1, !.str = Some(Val(@) \o ch)]
         ELSE
             CASE ch \in WhiteSpace -> [st EXCEPT !.i = @ + 1]
               [] ch \in Structural ->
                    [st EXCEPT !.i = @ + 1, !.toks = Append(@, Punct(ch))]
               [] ch = Quote -> [st EXCEPT !.i = @ + 1, !.str = Some("")]
               [] ch = "null" ->
                    [st EXCEPT !.i = @ + 1, !.toks = Append(@, LitTok("null"))]
               [] ch \in NumberWords ->
                    [st EXCEPT !.i = @ + 1, !.toks = Append(@, NumTok(ch))]
               [] OTHER -> [st EXCEPT !.ok = FALSE]

RECURSIVE LexRepeat(_, _, _)
\* n steps of the tokenizer, by halves
LexRepeat(cs, st, n) ==
    IF ~st.ok \/ n = 0 THEN st
    ELSE IF n = 1 THEN LexStep(cs, st)
    ELSE LexRepeat(cs, LexRepeat(cs, st, n \div 2), n - (n \div 2))

\* JSON.parse of a text of units: Ok(tree, _) or Fail (it throws)
ParseText(cs) ==
    LET end == LexRepeat(cs, LexStart, Len(cs)) IN
    IF end.ok /\ end.str = Null THEN JsonParse(end.toks) ELSE Fail

\* text.indexOf(unit), 1-based; 0 for -1
IndexOf1(text, unit) == Least({j \in 1..Len(text) : text[j] = unit})

\* extractBalanced, lines 62-64 and the loop variable: the state of the scan
ScanFrom(start) ==
    [i |-> start, depth |-> 0, inString |-> FALSE, escape |-> FALSE, end |-> 0]

\* an iteration that takes every delimiter at face value
BalanceStepPlain(text, open, close, st) ==
    IF st.end # 0 \/ st.i > Len(text) THEN st
    ELSE LET ch == text[st.i]
             next == [st EXCEPT !.i = @ + 1]
         IN IF ch = open THEN [next EXCEPT !.depth = @ + 1]
            ELSE IF ch = close
            THEN IF st.depth - 1 = 0 THEN [st EXCEPT !.end = st.i]
                 ELSE [next EXCEPT !.depth = @ - 1]
            ELSE next

\* extractBalanced, lines 67-88: one iteration of the loop; end is the index
\* of the closing delimiter once it is found
BalanceStep(text, open, close, st) ==
    IF st.end # 0 \/ st.i > Len(text) THEN st
    ELSE LET ch == text[st.i]
             next == [st EXCEPT !.i = @ + 1]
         IN CASE st.escape -> [next EXCEPT !.escape = FALSE]
              [] ~st.escape /\ ch = Backslash -> [next EXCEPT !.escape = TRUE]
              [] ~st.escape /\ ch = Quote -> [next EXCEPT !.inString = ~@]
              [] ~st.escape /\ ch \notin {Backslash, Quote} /\ st.inString -> next
              [] OTHER ->
                   IF ch = open THEN [next EXCEPT !.depth = @ + 1]
                   ELSE IF ch = close
                   THEN IF st.depth - 1 = 0 THEN [st EXCEPT !.end = st.i]
                        ELSE [next EXCEPT !.depth = @ - 1]
                   ELSE next

RECURSIVE BalanceRepeat(_, _, _, _, _)
\* n iterations of the loop, by halves
BalanceRepeat(text, open, close, st, n) ==
    IF st.end # 0 \/ n = 0 THEN st
    ELSE IF n = 1 THEN BalanceStep(text, open, close, st)
    ELSE BalanceRepeat(text, open, close,
                       BalanceRepeat(text, open, close, st, n \div 2), n - (n \div 2))

extractBalanced(text, start, open, close) ==
    LET st == BalanceRepeat(text, open, close, ScanFrom(start), Len(text)) IN
    IF st.end = 0 THEN Null ELSE Some(SubSeq(text, start, st.end))

\* lines 18-25: the first fence of the text, trimmed and parsed
TryFence(text) ==
    LET fenceMatch == FenceMatchFrom(text, 1) IN
    IF fenceMatch = Null THEN Fail ELSE ParseText(Trim(Val(fenceMatch)))

\* lines 28-38 and 41-51: the first balanced open...close of the text, parsed
TryRaw(text, open, close) ==
    LET start == IndexOf1(text, open) IN
    IF start = 0 THEN Fail
    ELSE LET result == extractBalanced(text, start, open, close) IN
         IF result = Null THEN Fail ELSE ParseText(Val(result))

\* extractJson: the parsed tree; JNull is the null of JavaScript, returned
\* both for a text that says null and for a text with no JSON
extractJson(text) ==
    LET fence == TryFence(text) IN
    IF fence.ok THEN fence.v
    ELSE LET object == TryRaw(text, "{", "}") IN
         IF object.ok THEN object.v
         ELSE LET array == TryRaw(text, "[", "]") IN
              IF array.ok THEN array.v ELSE JNull


-----------------------------------------------------------------------------
(* The texts an agent writes: JSON.stringify over units, fences, prose.    *)

\* the unit lists of the strings of the model that are not one word
StringUnits ==
    { <<>>,
      <<"Add", Space, "API">>,
      <<"Fix", Space, "--", Space, "UI!">>,
      <<Backtick, Backtick, Backtick>>,
      <<"say", Space, Quote, "hi", Quote>>,
      <<"a", Backslash, "b">>,
      <<"}", Space, "{">> }

UnitsOf(s) ==
    IF \E us \in StringUnits : JoinChars(us) = s
    THEN CHOOSE us \in StringUnits : JoinChars(us) = s
    ELSE <<s>>

RECURSIVE EscapeUnits(_)
\* JSON.stringify of the characters of a string: quote and backslash escaped
EscapeUnits(us) ==
    IF us = <<>> THEN <<>>
    ELSE (IF Head(us) \in {Quote, Backslash} THEN <<Backslash, Head(us)>>
          ELSE <<Head(us)>>) \o EscapeUnits(Tail(us))

TokenUnits(tok) ==
    IF tok.k = "str" THEN <<Quote>> \o EscapeUnits(UnitsOf(tok.s)) \o <<Quote>>
    ELSE <<tok.s>>

RECURSIVE ConcatAll(_)
\* the concatenation of a list of lists, by halves
ConcatAll(ss) ==
    IF ss = <<>> THEN <<>>
    ELSE IF Len(ss) = 1 THEN ss[1]
    ELSE ConcatAll(SubSeq(ss, 1, Len(ss) \div 2)) \o
         ConcatAll(SubSeq(ss, Len(ss) \div 2 + 1, Len(ss)))

TokensUnits(toks) == ConcatAll([i \in DOMAIN toks |-> TokenUnits(toks[i])])

\* JSON.stringify(v) as a text of units
Stringify(v) == TokensUnits(Render(v))

Fence == <<Backtick, Backtick, Backtick>>
JsonFence(body) == Fence \o <<"json", LineFeed>> \o body \o <<LineFeed>> \o Fence
PlainFence(body) == Fence \o <<LineFeed>> \o body \o <<LineFeed>> \o Fence
Prose == <<"Here", Space, "is", Space, "the", Space, "plan:", LineFeed>>

-----------------------------------------------------------------------------
(* planner.ts: what the planner session can answer and what runPlanning    *)
(* makes of it.                                                            *)

PlanTree(nodes) == PlanToJson(Some([summary |-> "plan", tasks |-> nodes]))

\* a task entry that lacks its dependsOn member
NodeWithoutDeps == JObj(<< <<"id", JStr("t1")>>, <<"title", JStr(TitleApi)>> >>)

\* the plans the planner session of this model can propose
PlannerPlans == {PlanPair, PlanDependentFirst, PlanEmpty, PlanSelfLoop, PlanCycle,
                 PlanUnknownDep}

\* the accumulated token text of a planner session that completed
PlannerTexts ==
    {Prose \o JsonFence(Stringify(PlanTree(nodes))) : nodes \in PlannerPlans} \cup
    { Prose,
      <<>>,
      Prose \o JsonFence(Stringify(JObj(<< <<"summary", JStr("plan")>> >>))),
      PlainFence(Stringify(JObj(<< <<"summary", JStr("plan")>>,
                                   <<"tasks", JStr("none")>> >>))),
      Stringify(JArr(<<JStr("t1")>>)),
      JsonFence(Stringify(JObj(<< <<"summary", JStr("plan")>>,
                                  <<"tasks", JArr(<<NodeWithoutDeps>>)>> >>))) }

\* lines 56-57: the extracted value is an object with a tasks array
HasTasksArray(v) ==
    v.t = "obj" /\ HasKey(v.e, "tasks") /\ Get(v.e, "tasks").t = "arr"

\* dag.ts, line 21: `for (const dep of task.dependsOn)` throws a TypeError at
\* a task entry without a dependsOn member
ValidateThrows(a) ==
    \E i \in DOMAIN a : ~(a[i].t = "obj" /\ HasKey(a[i].e, "dependsOn"))

\* runPlanning, lines 56-86, on the text of the planner session: the project
\* it leaves, whether it saves it, and whether it raises
PlanningOutcome(s, text) ==
    LET plan == extractJson(text) IN
    IF ~HasTasksArray(plan)
    THEN [state |-> [s EXCEPT !.planning.status = "failed",
                              !.planning.error =
                                  Some("Failed to extract valid plan from agent output"),
                              !.phase = "failed"],
          saves |-> TRUE, raises |-> TRUE]
    ELSE IF ValidateThrows(Get(plan.e, "tasks").a)
    THEN [state |-> s, saves |-> FALSE, raises |-> TRUE]
    ELSE LET validation == validateDag(Val(PlanFromJson(plan)).tasks) IN
         IF ~validation.valid
         THEN [state |-> [s EXCEPT !.planning.status = "failed",
                                   !.planning.error =
                                       Some("Invalid plan: " \o
                                            JoinWith(validation.errors, "; ")),
                                   !.phase = "failed"],
               saves |-> TRUE, raises |-> TRUE]
         ELSE [state |-> [s EXCEPT !.planning.status = "completed",
                                   !.plan = PlanFromJson(plan),
                                   !.phase = "approval"],
               saves |-> TRUE, raises |-> FALSE]


\* the outcome of runPlanning at every text, computed once
PlanningOutcomes(s) == {<<text, PlanningOutcome(s, text)>> : text \in PlannerTexts}

-----------------------------------------------------------------------------
(* orchestrate.ts: the whole command, from `orchestrate <goal>` through    *)
(* planning, approval, execution and integration, with kills of the        *)
(* process and `orchestrate --resume` (SpecDriver).                        *)

\* the id the control plane gives the planner and the integration session
PlannerSession == "s0"
IntegrationSession == "s9"

InitDriver ==
    /\ clock = 0
    /\ state = createProject("goal", SampleRepo, "model", 0)
    /\ pc = "start"
    /\ files = NoFiles
    /\ committed = Null
    /\ \E opt \in MaxParallelOptions : maxParallel = EffectiveMaxParallel(opt)
    /\ pending = <<>>
    /\ runningLen = 0
    /\ toSpawn = <<>>
    /\ toSpawnLen = 0
    /\ pollQueue = <<>>
    /\ session = <<>>
    /\ created = 0
    /\ everRunning = {}
    /\ startRunning = 0
    /\ call = Null

\* orchestrate.ts, line 98
NeedsPlanning(s) == s.phase = "planning" \/ s.plan = Null

\* orchestrate.ts, lines 98-100, and runPlanning, lines 27-29
PlanBegin ==
    /\ pc = "start"
    /\ NeedsPlanning(state)
    /\ Saved([state EXCEPT !.phase = "planning", !.planning.status = "running"])
    /\ pc' = "p_create"
    /\ UNCHANGED <<call, clock, schedVars>>

\* orchestrate.ts, line 98: planning is skipped
PlanSkip ==
    /\ pc = "start"
    /\ ~NeedsPlanning(state)
    /\ pc' = "approve"
    /\ UNCHANGED <<call, state, storeVars, clock, schedVars>>

\* runPlanning, lines 33-40: createSession returns, or it throws and the
\* command exits
PlanCreate ==
    /\ pc = "p_create"
    /\ pc' \in {"p_record", "exit"}
    /\ UNCHANGED <<call, state, storeVars, clock, schedVars>>

\* runPlanning, lines 42-43: the session id is recorded and saved
PlanRecord ==
    /\ pc = "p_record"
    /\ RecordSession([state EXCEPT !.planning.sessionId = Some(PlannerSession)])
    /\ pc' = "p_prompt"
    /\ UNCHANGED <<call, clock, schedVars>>

\* runPlanning, lines 47-48: sendPrompt returns or throws
PlanPrompt ==
    /\ pc = "p_prompt"
    /\ pc' \in {"p_poll", "exit"}
    /\ UNCHANGED <<call, state, storeVars, clock, schedVars>>

\* runPlanning, lines 52-86: pollForCompletion throws (the agent reported a
\* failure) and the command exits, or it returns the text of the session and
\* the plan is extracted, validated and recorded, or runPlanning raises on
\* that text
PlanPoll ==
    /\ pc = "p_poll"
    /\ \/ /\ pc' = "exit"
          /\ UNCHANGED <<call, state, storeVars, session>>
       \/ \E p \in PlanningOutcomes(state) :
            LET out == p[2] IN
            /\ IF out.saves THEN Saved(out.state)
               ELSE UNCHANGED <<call, state, storeVars>>
            /\ pc' = IF out.raises THEN "p_raised" ELSE "approve"
            /\ session' = IF out.raises THEN session
                          ELSE [id \in PlanIds(Val(out.state.plan).tasks) |-> "none"]
    /\ UNCHANGED <<call, clock, maxParallel, loopVars, created, everRunning, startRunning>>

\* orchestrate.ts, line 100: runPlanning raised and the command exits
PlanRaised ==
    /\ pc = "p_raised"
    /\ pc' = "exit"
    /\ UNCHANGED <<call, state, storeVars, clock, schedVars>>

\* approvePlan, line 25: displayPlan(plan) throws out of computeWaves and the
\* command ends with the state as planning left it
DisplayRaised ==
    /\ pc = "approve"
    /\ state.phase = "approval"
    /\ ~Displayable(Val(state.plan).tasks)
    /\ pc' = "exit"
    /\ UNCHANGED <<call, state, storeVars, clock, schedVars>>

\* orchestrate.ts, lines 106-120: the plan is displayed and the user approves
\* it (approvePlan returns the plan it was given)
Approve ==
    /\ pc = "approve"
    /\ state.phase = "approval"
    /\ Displayable(Val(state.plan).tasks)
    /\ Saved([state EXCEPT !.plan = state.plan, !.phase = "executing"])
    /\ pc' = "dryrun"
    /\ UNCHANGED <<call, clock, schedVars>>

\* orchestrate.ts, lines 110-114: the plan is displayed and the user rejects it
Reject ==
    /\ pc = "approve"
    /\ state.phase = "approval"
    /\ Displayable(Val(state.plan).tasks)
    /\ Saved([state EXCEPT !.phase = "failed"])
    /\ pc' = "exit"
    /\ UNCHANGED <<call, clock, schedVars>>

\* orchestrate.ts, line 106: approval is skipped
ApproveSkip ==
    /\ pc = "approve"
    /\ state.phase # "approval"
    /\ pc' = "dryrun"
    /\ UNCHANGED <<call, state, storeVars, clock, schedVars>>

\* orchestrate.ts, lines 126-135: --dry-run stops here; otherwise runExecution
\* is entered in phase executing and skipped in every other phase
Dispatch ==
    /\ pc = "dryrun"
    /\ \/ pc' = "exit"
       \/ pc' = IF state.phase = "executing" THEN "run" ELSE "integ"
    /\ UNCHANGED <<call, state, storeVars, clock, schedVars>>

\* orchestrate.ts, lines 137-144: runExecution raised and the command exits,
\* or it returned
ExecutionEnd ==
    /\ pc \in {"raised", "returned"}
    /\ pc' = IF pc = "raised" THEN "exit" ELSE "integ"
    /\ UNCHANGED <<call, state, storeVars, clock, schedVars>>

\* orchestrate.ts, line 147, and runIntegration, lines 30-32
IntegrationBegin ==
    /\ pc = "integ"
    /\ state.phase \in {"integrating", "executing"}
    /\ Saved([state EXCEPT !.phase = "integrating", !.integration.status = "running"])
    /\ pc' = "i_collect"
    /\ UNCHANGED <<call, clock, schedVars>>

\* orchestrate.ts, line 147: integration is skipped and the command ends
IntegrationSkip ==
    /\ pc = "integ"
    /\ state.phase \notin {"integrating", "executing"}
    /\ pc' = "exit"
    /\ UNCHANGED <<call, state, storeVars, clock, schedVars>>

\* a collection that takes every task that has a branch, failed ones included
CompletedOrFailedTasks(s) ==
    SeqFilterIds(ObjectValues(s.tasks),
                 {x \in Range(ObjectValues(s.tasks)) :
                      x.status \in {"completed", "failed"} /\
                      x.branchName \notin {Null, Some("")}})

\* runIntegration, lines 35-36: the completed tasks that have a branch
CompletedTasks(s) ==
    SeqFilterIds(ObjectValues(s.tasks),
                 {x \in Range(ObjectValues(s.tasks)) :
                      x.status = "completed" /\ x.branchName \notin {Null, Some("")}})

\* the value runIntegration returns, held until orchestrate has read it
Returned(branchName, prUrl) ==
    [fn |-> "runIntegration", result |-> [branchName |-> branchName, prUrl |-> prUrl]]

\* runIntegration, lines 47-66: nothing to integrate (it raises), one branch
\* (it returns), or several
IntegrationCollect ==
    /\ pc = "i_collect"
    /\ LET done == CompletedTasks(state) IN
         IF Len(done) = 0
         THEN /\ Saved([state EXCEPT !.integration.status = "failed",
                                     !.integration.error =
                                         Some("No completed tasks to integrate"),
                                     !.phase = "failed"])
              /\ pc' = "i_raised"
              /\ UNCHANGED call
         ELSE IF Len(done) = 1
         THEN /\ Saved([state EXCEPT !.integration.status = "completed",
                                     !.integration.mergedBranch = done[1].branchName,
                                     !.phase = "completed"])
              /\ pc' = "i_returned"
              /\ call' = Returned(done[1].branchName, Null)
         ELSE /\ UNCHANGED <<call, state, storeVars>>
              /\ pc' = "i_create"
    /\ UNCHANGED <<clock, schedVars>>

\* runIntegration, lines 70-77: createSession returns, or it throws
IntegrationCreate ==
    /\ pc = "i_create"
    /\ pc' \in {"i_record", "i_raised"}
    /\ UNCHANGED <<call, state, storeVars, clock, schedVars>>

\* runIntegration, lines 79-80: the session id is recorded and saved
IntegrationRecord ==
    /\ pc = "i_record"
    /\ RecordSession([state EXCEPT !.integration.sessionId = Some(IntegrationSession)])
    /\ pc' = "i_prompt"
    /\ UNCHANGED <<call, clock, schedVars>>

\* what getSession and getArtifacts answer for the finished merge session
MergeAnswers ==
    {[branchName |-> b, prUrl |-> u] :
        b \in {Null, Some("oi/merged")}, u \in {Null, Some("https://example.test/pr/1")}}

\* runIntegration, lines 84-85: sendPrompt returns or throws
IntegrationPrompt ==
    /\ pc = "i_prompt"
    /\ pc' \in {"i_poll", "i_raised"}
    /\ UNCHANGED <<call, state, storeVars, clock, schedVars>>

\* runIntegration, lines 89-109: pollForCompletion, getSession or getArtifacts
\* throws, or the merge is recorded
IntegrationFinish ==
    /\ pc = "i_poll"
    /\ \/ /\ pc' = "i_raised"
          /\ UNCHANGED <<call, state, storeVars>>
       \/ \E a \in MergeAnswers :
            /\ Saved([state EXCEPT !.integration.status = "completed",
                                   !.integration.mergedBranch = a.branchName,
                                   !.integration.prUrl = a.prUrl,
                                   !.phase = "completed"])
            /\ pc' = "i_returned"
            /\ call' = Returned(a.branchName, a.prUrl)
    /\ UNCHANGED <<clock, schedVars>>

\* orchestrate.ts, lines 150-169: runIntegration has raised and the command
\* ends, or it has returned and the result is reported
IntegrationEnd ==
    /\ pc \in {"i_raised", "i_returned"}
    /\ pc' = "exit"
    /\ call' = Null
    /\ UNCHANGED <<state, storeVars, clock, schedVars>>

DriverPcs == {"start", "p_create", "p_record", "p_prompt", "p_poll", "p_raised",
              "approve", "dryrun",
              "integ", "i_collect", "i_create", "i_record", "i_prompt", "i_poll", "i_raised",
              "i_returned",
              "raised"}

\* the process is killed
DriverKill ==
    /\ pc \in DriverPcs \cup RunPcs
    /\ pc' = "dead"
    /\ state' = NoProject
    /\ maxParallel' = DEFAULT_MAX_PARALLEL
    /\ pending' = <<>>
    /\ runningLen' = 0
    /\ toSpawn' = <<>>
    /\ toSpawnLen' = 0
    /\ pollQueue' = <<>>
    /\ startRunning' = 0
    /\ call' = Null
    /\ UNCHANGED <<storeVars, clock, session, created, everRunning>>

\* `orchestrate --resume <id>` after the process was killed or has exited
\* (orchestrate.ts, lines 77-83)
DriverResume ==
    /\ pc \in {"dead", "exit"}
    /\ \E got \in {loadProject(files, ProjectId)} :
         /\ got # Null
         /\ state' = Val(got)
         /\ startRunning' = Len(WithStatus(Val(got).tasks, "running"))
    /\ pc' = "start"
    /\ \E opt \in MaxParallelOptions : maxParallel' = EffectiveMaxParallel(opt)
    /\ pending' = <<>>
    /\ runningLen' = 0
    /\ toSpawn' = <<>>
    /\ toSpawnLen' = 0
    /\ pollQueue' = <<>>
    /\ UNCHANGED <<call, storeVars, clock, session, created, everRunning>>

NextDriver ==
    \/ PlanBegin
    \/ PlanSkip
    \/ PlanCreate
    \/ PlanRecord
    \/ PlanPrompt
    \/ PlanPoll
    \/ PlanRaised
    \/ DisplayRaised
    \/ Approve
    \/ Reject
    \/ ApproveSkip
    \/ Dispatch
    \/ NextRun
    \/ ExecutionEnd
    \/ IntegrationBegin
    \/ IntegrationSkip
    \/ IntegrationCollect
    \/ IntegrationCreate
    \/ IntegrationRecord
    \/ IntegrationPrompt
    \/ IntegrationFinish
    \/ IntegrationEnd
    \/ DriverKill
    \/ DriverResume

SpecDriver == InitDriver /\ [][NextDriver]_vars


-----------------------------------------------------------------------------
(* Properties of the driver (SpecDriver).                                  *)

PhaseRank(phase) ==
    CASE phase = "planning" -> 1
      [] phase = "approval" -> 2
      [] phase = "executing" -> 3
      [] phase = "integrating" -> 4
      [] phase = "completed" -> 5
      [] phase = "failed" -> 5

\* the phase stays, moves forward along planning -> approval -> executing ->
\* integrating -> completed, or becomes failed; completed and failed stay
PhaseForward(before, after) ==
    /\ before \in {"completed", "failed"} => after = before
    /\ after # "failed" => PhaseRank(after) >= PhaseRank(before)

\* C11: over any sequence of driver runs of one project (the fresh run and
\* any number of resumes) the phase only moves forward along planning ->
\* approval -> executing -> integrating -> completed, or to failed: it never
\* moves from a later phase to an earlier one, and completed and failed are
\* never left once reached.  Stated of the phase in memory from step to step
\* (a resume included) and of the phase of successive saved versions.
PhaseOrder ==
    [][/\ (pc # "dead" /\ pc' # "dead") => PhaseForward(state.phase, state'.phase)
       /\ (committed # Null /\ committed' # Null) =>
             PhaseForward(Val(committed).phase, Val(committed').phase)]_vars


-----------------------------------------------------------------------------
(* Properties of the scheduler under resumes (Spec).                       *)

\* C12: resume of execution is idempotent on recorded work: when runExecution
\* is re-entered on a loaded project, the tasks recorded completed, failed or
\* skipped are left unchanged and get no new session, and a task recorded
\* running with a sessionId is polled on that existing session and is not
\* spawned again.  A resumed process starts from the recorded tasks; at every
\* step of a process a terminal task keeps its whole record and its session
\* is not touched, a running task with a session keeps that session and
\* leaves running only through a poll (or, in the process that spawned it,
\* through a sendPrompt that throws), every poll cycle takes all running
\* tasks, and a session is created only for a task recorded pending.
ResumeIdempotent ==
    [][/\ (pc = "dead" /\ pc' # "dead") => state'.tasks = Val(committed).tasks
       /\ (pc # "dead" /\ pc' # "dead") =>
            \A id \in Range(TaskIds(state.tasks)) :
                LET before == Get(state.tasks, id)
                    after == Get(state'.tasks, id)
                IN /\ before.status \in Terminal =>
                        after = before /\ session'[id] = session[id]
                   /\ (before.status = "running" /\ before.sessionId # Null) =>
                        /\ after.sessionId = before.sessionId
                        /\ after.status \in {"running", "completed", "failed"}
                        /\ after.status # "running" =>
                               \/ pc = "poll" /\ id = Head(pollQueue)
                               \/ pc = "prompt" /\ id = Head(toSpawn)
       /\ (pc = "spawn" /\ pc' = "poll") =>
            /\ pollQueue' = WithStatus(state.tasks, "running")
            /\ \A i \in DOMAIN pollQueue' :
                   Get(state.tasks, pollQueue'[i]).sessionId # Null
       /\ created' # created =>
            /\ Get(Val(committed).tasks, Head(toSpawn)).status = "pending"
            /\ Get(Val(committed).tasks, Head(toSpawn)).sessionId = Null]_vars

\* a resumed process that found a task running polls it on its recorded
\* session while another task is terminal, and no session was created twice
ResumeIdempotentWitness ==
    /\ pc = "poll" /\ startRunning > 0 /\ pollQueue # <<>>
    /\ Get(state.tasks, Head(pollQueue)).status = "running"
    /\ Get(state.tasks, Head(pollQueue)).sessionId # Null
    /\ session[Head(pollQueue)] # "none"
    /\ \E id \in Range(TaskIds(state.tasks)) : StatusOf(state.tasks, id) \in Terminal
    /\ created = Cardinality({id \in Range(TaskIds(state.tasks)) :
                                 Get(state.tasks, id).sessionId # Null})


\* the plan has a tasks array that validateDag accepts
ValidPlan(plan) == plan # Null /\ validateDag(Val(plan).tasks).valid

\* C13: project.plan is only ever set by runPlanning, to a plan that has a
\* tasks array and passes validateDag, together with planning.status =
\* completed and phase = approval; if extraction or validation fails then
\* plan stays null, planning.error is recorded, planning.status and phase
\* become failed, the state is saved and runPlanning raises.
PlannerOutcome ==
    [][/\ (pc # "dead" /\ pc' # "dead" /\ state'.plan # state.plan) =>
            /\ pc = "p_poll" /\ state.plan = Null
            /\ ValidPlan(state'.plan)
            /\ state'.planning.status = "completed"
            /\ state'.phase = "approval"
            /\ committed' = Some(state')
       /\ (pc = "dead" /\ pc' # "dead") => state'.plan = Val(committed).plan
       /\ (pc = "p_poll" /\ pc' = "p_raised") =>
            /\ state'.plan = Null
            /\ state'.planning.error # Undefined
            /\ state'.planning.status = "failed"
            /\ state'.phase = "failed"
            /\ committed' = Some(state')]_vars

-----------------------------------------------------------------------------
(* dag.ts called on its own (specification SpecDag): validateDag on every  *)
(* task list over a few ids, then computeWaves and topologicalSort on the  *)
(* lists it accepts, as the planner, the plan display and the tests do.    *)

DagIds == {"t1", "t2", "t3"}
UnknownId == "t9"

\* dependsOn: no dependency, one (the unknown id included), or two different ones
DagDepLists ==
    {<<>>} \cup {<<a>> : a \in DagIds \cup {UnknownId}}
           \cup {p \in {<<a, b>> : a \in DagIds, b \in DagIds} : p[1] # p[2]}

DagNodes == {Node(id, TitleApi, deps) : id \in DagIds, deps \in DagDepLists}

\* the task lists: every order, repeated ids included
DagLists == UNION {[1..n -> DagNodes] : n \in 0..Cardinality(DagIds)}

InitDag ==
    /\ \E tasks \in DagLists :
         call = [fn |-> "dag", tasks |-> tasks, validation |-> Null,
                 cycleNodes |-> Null, waves |-> Null, sorted |-> Null]
    /\ clock = 0
    /\ state = NoProject
    /\ pc = "dag"
    /\ files = NoFiles
    /\ committed = Null
    /\ maxParallel = 1
    /\ pending = <<>>
    /\ runningLen = 0
    /\ toSpawn = <<>>
    /\ toSpawnLen = 0
    /\ pollQueue = <<>>
    /\ session = <<>>
    /\ created = 0
    /\ everRunning = {}
    /\ startRunning = 0

progVars == <<state, pc, files, clock, committed, maxParallel, pending, runningLen,
              toSpawn, toSpawnLen, pollQueue, session, created, everRunning,
              startRunning>>

\* validateDag(tasks), with the cycleNodes it got from detectCycles (line 29)
DagValidate ==
    /\ pc = "dag"
    /\ call.validation = Null
    /\ call' = [call EXCEPT !.validation = Some(validateDag(call.tasks)),
                            !.cycleNodes = Some(detectCycles(call.tasks))]
    /\ UNCHANGED progVars

Validated == pc = "dag" /\ call.validation # Null
Accepted == Validated /\ Val(call.validation).valid

\* computeWaves(tasks) on an accepted list
DagWaves ==
    /\ Accepted
    /\ call.waves = Null
    /\ call' = [call EXCEPT !.waves = Some(computeWaves(call.tasks))]
    /\ UNCHANGED progVars

\* topologicalSort(tasks) on an accepted list
DagSort ==
    /\ Accepted
    /\ call.sorted = Null
    /\ call' = [call EXCEPT !.sorted = Some(topologicalSort(call.tasks))]
    /\ UNCHANGED progVars

NextDag == DagValidate \/ DagWaves \/ DagSort

SpecDag == InitDag /\ [][NextDag]_vars

\* validateDag, lines 14, 23 and 31: the texts of the errors
DuplicateError(id) == "Duplicate task ID: \"" \o id \o "\""
UnknownError(id, dep) == "Task \"" \o id \o "\" depends on unknown task \"" \o dep \o "\""
CycleError(nodes) == "Cycle detected involving tasks: " \o JoinWith(nodes, ", ")

-----------------------------------------------------------------------------
(* The dependsOn relation of a task list.                                  *)

\* the pairs <<task, dependency>> of the list
DepEdges(tasks) ==
    UNION {{<<tasks[i].id, tasks[i].dependsOn[k]>> : k \in DOMAIN tasks[i].dependsOn} :
               i \in DOMAIN tasks}

RECURSIVE ReachFrom(_, _)
ReachFrom(edges, seen) ==
    LET next == seen \cup {e[2] : e \in {x \in edges : x[1] \in seen}}
    IN IF next = seen THEN seen ELSE ReachFrom(edges, next)

\* the direct and transitive dependencies of id
DependsOnPlus(tasks, id) ==
    ReachFrom(DepEdges(tasks), {e[2] : e \in {x \in DepEdges(tasks) : x[1] = id}})

OnCycle(tasks, id) == id \in DependsOnPlus(tasks, id)
Cyclic(tasks) == \E i \in DOMAIN tasks : OnCycle(tasks, tasks[i].id)

IdsOf(tasks) == {tasks[i].id : i \in DOMAIN tasks}
\* the positions that repeat an id, and the references to an id of no task
RepeatedAt(tasks) == {i \in DOMAIN tasks : \E j \in 1..(i - 1) : tasks[j].id = tasks[i].id}
UnknownRefs(tasks) ==
    {r \in UNION {{<<i, k>> : k \in DOMAIN tasks[i].dependsOn} : i \in DOMAIN tasks} :
        tasks[r[1]].dependsOn[r[2]] \notin IdsOf(tasks)}

\* C14: for every task list whose dependsOn relation contains a dependency
\* cycle of any length, a task that depends on itself included, validateDag
\* returns valid = false with a cycle error that names every task on a cycle.
CycleDetection ==
    Validated /\ Cyclic(call.tasks) =>
        /\ ~Val(call.validation).valid
        /\ CycleError(Val(call.cycleNodes)) \in Range(Val(call.validation).errors)
        /\ \A id \in IdsOf(call.tasks) :
              OnCycle(call.tasks, id) => id \in Range(Val(call.cycleNodes))

\* C15: validateDag returns valid = true with errors = [] exactly when all ids
\* are unique, every dependsOn id exists and the graph is acyclic; otherwise,
\* in the same call, errors holds an entry for each repeated id, an entry for
\* each reference to an unknown id and a cycle entry when a cycle exists, and
\* nothing else.
ValidationExact ==
    Validated =>
        LET tasks == call.tasks
            v == Val(call.validation)
        IN /\ (v.valid /\ v.errors = <<>>) <=>
                  (RepeatedAt(tasks) = {} /\ UnknownRefs(tasks) = {} /\ ~Cyclic(tasks))
           /\ v.valid <=> v.errors = <<>>
           /\ \A i \in RepeatedAt(tasks) : DuplicateError(tasks[i].id) \in Range(v.errors)
           /\ \A r \in UnknownRefs(tasks) :
                 UnknownError(tasks[r[1]].id, tasks[r[1]].dependsOn[r[2]]) \in Range(v.errors)
           /\ Cyclic(tasks) => CycleError(Val(call.cycleNodes)) \in Range(v.errors)
           /\ Len(v.errors) = Cardinality(RepeatedAt(tasks)) + Cardinality(UnknownRefs(tasks))
                                + (IF Cyclic(tasks) THEN 1 ELSE 0)

MaxOf(S) == CHOOSE m \in S : \A x \in S : x <= m

RECURSIVE WaveOf(_, _)
\* wave(t): 0 without dependencies, 1 + the largest wave of its dependencies
\* otherwise (defined on acyclic lists with unique ids and known dependencies)
WaveOf(tasks, id) ==
    LET deps == Range(TaskOf(tasks, id).dependsOn)
    IN IF deps = {} THEN 0 ELSE 1 + MaxOf({WaveOf(tasks, d) : d \in deps})

\* the number of tasks on the longest dependency chain
LongestChain(tasks) ==
    IF tasks = <<>> THEN 0 ELSE 1 + MaxOf({WaveOf(tasks, id) : id \in IdsOf(tasks)})

\* the places <<group, position>> of a grouping
Places(waves) == UNION {{<<g, k>> : k \in DOMAIN waves[g]} : g \in DOMAIN waves}

\* C16: computeWaves on a validated task list returns a partition of the tasks
\* (every task in exactly one place) in which group i holds exactly the tasks
\* whose wave is i; no group is empty and the number of groups is the number
\* of tasks on the longest dependency chain.
WavesPartition ==
    Accepted /\ call.waves # Null =>
        /\ Val(call.waves).ok
        /\ LET tasks == call.tasks
               waves == Val(call.waves).waves
           IN /\ \A g \in DOMAIN waves : waves[g] # <<>>
              /\ \A i \in DOMAIN tasks :
                    Cardinality({p \in Places(waves) : waves[p[1]][p[2]] = tasks[i]}) = 1
              /\ Cardinality(Places(waves)) = Len(tasks)
              /\ \A p \in Places(waves) : WaveOf(tasks, waves[p[1]][p[2]].id) = p[1] - 1
              /\ Len(waves) = LongestChain(tasks)

\* C17: topologicalSort on a validated task list returns a permutation of the
\* input, each task exactly once, in which every task comes after all of its
\* direct and transitive dependencies, for every ordering of the input list.
SortAfterDependencies ==
    Accepted /\ call.sorted # Null =>
        /\ Val(call.sorted).ok
        /\ LET tasks == call.tasks
               result == Val(call.sorted).result
           IN /\ Len(result) = Len(tasks)
              /\ \A i \in DOMAIN tasks :
                    Cardinality({p \in DOMAIN result : result[p] = tasks[i]}) = 1
              /\ \A p \in DOMAIN result :
                    \A d \in DependsOnPlus(tasks, result[p].id) :
                        \E q \in 1..(p - 1) : result[q].id = d

-----------------------------------------------------------------------------
(* extractJson called on its own (specification SpecExtract): texts made   *)
(* of a few parts (prose, raw JSON, tagged and untagged fences), read in   *)
(* the three stages of the function.                                        *)

MaxParts == 2

\* the JSON values the texts carry
ExtractValues ==
    { JNull, JNum(1), JStr("a"), JStr(JoinChars(Fence)),
      JArr(<<JNum(0)>>), JObj(<< <<"a", JNum(1)>> >>),
      JObj(<< <<"b", JArr(<<JStr("a")>>)>> >>) }

Part(kind, body) == [kind |-> kind, body |-> body]
ProsePart == Part("prose", <<"Here", Space, "is", Space, "the", Space, "plan:">>)
\* a fence whose content is not JSON
BrokenPart == Part("json", <<"{", Quote, "a", Quote>>)

ExtractParts ==
    {Part(kind, Stringify(v)) : kind \in {"json", "plain", "raw"}, v \in ExtractValues}
        \cup {ProsePart, BrokenPart}

PartText(p) ==
    CASE p.kind = "json" -> JsonFence(p.body)
      [] p.kind = "plain" -> PlainFence(p.body)
      [] OTHER -> p.body

\* the parts on lines of their own
PartsText(parts) ==
    ConcatAll([i \in DOMAIN parts |->
                  PartText(parts[i]) \o (IF i < Len(parts) THEN <<LineFeed>> ELSE <<>>)])

InitExtract ==
    /\ \E n \in 1..MaxParts : \E parts \in [1..n -> ExtractParts] :
         call = [fn |-> "extractJson", parts |-> parts, text |-> PartsText(parts),
                 stage |-> "fence", result |-> Null]
    /\ clock = 0
    /\ state = NoProject
    /\ pc = "extract"
    /\ files = NoFiles
    /\ committed = Null
    /\ maxParallel = 1
    /\ pending = <<>>
    /\ runningLen = 0
    /\ toSpawn = <<>>
    /\ toSpawnLen = 0
    /\ pollQueue = <<>>
    /\ session = <<>>
    /\ created = 0
    /\ everRunning = {}
    /\ startRunning = 0

\* the end of a stage of extractJson: the candidate parses and is returned,
\* or the next stage is tried (null after the last one)
StageEnd(c, candidate, next) ==
    IF candidate.ok THEN [c EXCEPT !.stage = "done", !.result = Some(candidate.v)]
    ELSE IF next = "done" THEN [c EXCEPT !.stage = "done", !.result = Some(JNull)]
    ELSE [c EXCEPT !.stage = next]

\* lines 18-25
ExtractFence ==
    /\ pc = "extract" /\ call.stage = "fence"
    /\ call' = StageEnd(call, TryFence(call.text), "object")
    /\ UNCHANGED progVars

\* lines 28-38
ExtractObject ==
    /\ pc = "extract" /\ call.stage = "object"
    /\ call' = StageEnd(call, TryRaw(call.text, "{", "}"), "array")
    /\ UNCHANGED progVars

\* lines 41-53
ExtractArray ==
    /\ pc = "extract" /\ call.stage = "array"
    /\ call' = StageEnd(call, TryRaw(call.text, "[", "]"), "done")
    /\ UNCHANGED progVars

NextExtract == ExtractFence \/ ExtractObject \/ ExtractArray

SpecExtract == InitExtract /\ [][NextExtract]_vars

Extracted == pc = "extract" /\ call.stage = "done"

\* the parts of a kind whose content parses as JSON
Parsing(parts, kind) ==
    {i \in DOMAIN parts : parts[i].kind = kind /\ ParseText(parts[i].body).ok}

\* the first candidate that parses, in the order of the kinds of candidate
FirstCandidate(parts, text) ==
    IF Parsing(parts, "json") # {}
    THEN ParseText(parts[Least(Parsing(parts, "json"))].body).v
    ELSE IF Parsing(parts, "plain") # {}
    THEN ParseText(parts[Least(Parsing(parts, "plain"))].body).v
    ELSE IF TryRaw(text, "{", "}").ok THEN TryRaw(text, "{", "}").v
    ELSE IF TryRaw(text, "[", "]").ok THEN TryRaw(text, "[", "]").v
    ELSE JNull

NoBacktick(parts) == \A i \in DOMAIN parts : Backtick \notin Range(parts[i].body)

\* C18: extractJson returns the first candidate that parses as JSON, trying
\* the content of a json-tagged fence, then the content of an untagged fence,
\* then the first balanced {...}, then the first balanced [...]: a well-formed
\* tagged fence anywhere in the text wins over an untagged fence or raw JSON
\* earlier in the text (texts whose parts hold no backquote of their own).
ExtractionPriority ==
    Extracted /\ NoBacktick(call.parts) =>
        Val(call.result) = FirstCandidate(call.parts, call.text)

\* C19: for every JSON value v, extractJson applied to a text that contains
\* the serialization of v inside a json-tagged fence, and no other fence,
\* returns a value equal to v.
ExtractRoundTrip ==
    Extracted =>
        \A v \in ExtractValues :
            (/\ \E i \in DOMAIN call.parts : call.parts[i] = Part("json", Stringify(v))
             /\ Cardinality({i \in DOMAIN call.parts :
                                call.parts[i].kind \in {"json", "plain"}}) = 1)
                => Val(call.result) = v

-----------------------------------------------------------------------------
(* retry.ts: retry(fn, options), one statement at a time (specification    *)
(* SpecRetry).  The log holds the calls of fn and the sleeps, in order.    *)

MaxRetryAttempts == 4

DefaultMaxAttempts == 3
DefaultBaseDelayMs == 1000
DefaultMaxDelayMs == 30000

\* options.maxAttempts: absent, or a count
MaxAttemptsOptions == {Undefined} \cup {Some(n) : n \in 1..MaxRetryAttempts}

\* what a call of fn can do: resolve with a value, or reject with an error
RetryOutcomes == {"ok", "fail", "fatal"}
Rejects(outcome) == outcome # "ok"

\* shouldAbort?.(error), line 35: the option of the tests, when it is given
ShouldAbort(given, error) == given /\ error = "fatal"

RECURSIVE Pow2(_)
Pow2(n) == IF n = 0 THEN 1 ELSE 2 * Pow2(n - 1)

\* lines 40-41: the upper limit of the jittered delay
CappedDelay(attempt) == Min(DefaultBaseDelayMs * Pow2(attempt), DefaultMaxDelayMs)

CallEvent(attempt, outcome) == [e |-> "call", attempt |-> attempt, outcome |-> outcome]
WaitEvent(attempt) == [e |-> "wait", attempt |-> attempt, below |-> CappedDelay(attempt)]

InitRetry ==
    /\ \E opt \in MaxAttemptsOptions, given \in BOOLEAN :
         call = [fn |-> "retry",
                 option |-> opt,
                 maxAttempts |-> IF opt = Undefined THEN DefaultMaxAttempts ELSE Val(opt),
                 abortGiven |-> given,
                 attempt |-> 0, lastError |-> Undefined, at |-> "loop",
                 log |-> <<>>, outcome |-> Null]
    /\ clock = 0
    /\ state = NoProject
    /\ pc = "retry"
    /\ files = NoFiles
    /\ committed = Null
    /\ maxParallel = 1
    /\ pending = <<>>
    /\ runningLen = 0
    /\ toSpawn = <<>>
    /\ toSpawnLen = 0
    /\ pollQueue = <<>>
    /\ session = <<>>
    /\ created = 0
    /\ everRunning = {}
    /\ startRunning = 0

\* line 29, and line 48 when the loop ends
RetryLoop ==
    /\ pc = "retry" /\ call.at = "loop"
    /\ call' = IF call.attempt < call.maxAttempts
               THEN [call EXCEPT !.at = "try"]
               ELSE [call EXCEPT !.at = "raised", !.outcome = call.lastError]
    /\ UNCHANGED progVars

\* lines 30-33: fn(attempt) resolves and its value is returned, or rejects
RetryCall ==
    /\ pc = "retry" /\ call.at = "try"
    /\ \E outcome \in RetryOutcomes :
         call' = IF Rejects(outcome)
                 THEN [call EXCEPT !.log = Append(@, CallEvent(call.attempt, outcome)),
                                   !.lastError = Some(outcome), !.at = "catch"]
                 ELSE [call EXCEPT !.log = Append(@, CallEvent(call.attempt, outcome)),
                                   !.at = "returned", !.outcome = Some(outcome)]
    /\ UNCHANGED progVars

\* a test that lets a sleep follow every failure
SleepsAfterEvery(attempt, maxAttempts) == attempt < maxAttempts

\* line 39
SleepsAfter(attempt, maxAttempts) == attempt < maxAttempts - 1

\* lines 35-39 and the attempt++ of line 29
RetryCatch ==
    /\ pc = "retry" /\ call.at = "catch"
    /\ call' = IF ShouldAbort(call.abortGiven, Val(call.lastError))
               THEN [call EXCEPT !.at = "raised", !.outcome = call.lastError]
               ELSE IF SleepsAfter(call.attempt, call.maxAttempts)
               THEN [call EXCEPT !.at = "sleep"]
               ELSE [call EXCEPT !.at = "loop", !.attempt = @ + 1]
    /\ UNCHANGED progVars

\* lines 40-43 and the attempt++ of line 29
RetrySleep ==
    /\ pc = "retry" /\ call.at = "sleep"
    /\ call' = [call EXCEPT !.log = Append(@, WaitEvent(call.attempt)),
                            !.at = "loop", !.attempt = @ + 1]
    /\ UNCHANGED progVars

NextRetry == RetryLoop \/ RetryCall \/ RetryCatch \/ RetrySleep

SpecRetry == InitRetry /\ [][NextRetry]_vars

\* the calls of fn so far
RetryCalls == SelectSeq(call.log, LAMBDA ev : ev.e = "call")

\* the number of attempts the options ask for
AttemptsAsked == IF call.option = Undefined THEN 3 ELSE Val(call.option)

Aborting(ev) == call.abortGiven /\ ev.outcome = "fatal"

\* C20: retry calls the operation with attempt indices 0, 1, 2, ... in order
\* and stops at the first of a success, whose value it returns, a failure for
\* which shouldAbort is true, raised at once with no wait and no further
\* call, or the maxAttempts-th failure, which is raised; on exhaustion the
\* operation has been called exactly maxAttempts times, 3 by default, and no
\* wait follows the final failure.
RetryContract ==
    pc = "retry" =>
        /\ \A k \in DOMAIN RetryCalls : RetryCalls[k].attempt = k - 1
        /\ Len(RetryCalls) <= AttemptsAsked
        /\ \A i \in DOMAIN call.log :
              /\ (call.log[i].e = "call" /\ i < Len(call.log)) =>
                    /\ Rejects(call.log[i].outcome)
                    /\ ~Aborting(call.log[i])
                    /\ call.log[i].attempt < AttemptsAsked - 1
                    /\ call.log[i + 1] = WaitEvent(call.log[i].attempt)
              /\ call.log[i].e = "wait" =>
                    /\ i > 1 /\ call.log[i - 1].e = "call"
                    /\ i < Len(call.log) => call.log[i + 1].e = "call"
        /\ call.at = "returned" =>
              /\ call.log # <<>>
              /\ call.log[Len(call.log)] = CallEvent(Len(RetryCalls) - 1, "ok")
              /\ call.outcome = Some("ok")
        /\ call.at = "raised" =>
              /\ call.log # <<>>
              /\ call.log[Len(call.log)].e = "call"
              /\ Rejects(call.log[Len(call.log)].outcome)
              /\ call.outcome = Some(call.log[Len(call.log)].outcome)
              /\ \/ Aborting(call.log[Len(call.log)])
                 \/ Len(RetryCalls) = AttemptsAsked
        /\ call.at = "try" /\ call.log # <<>> =>
              call.log[Len(call.log)].e = "wait"

\* every attempt of a retry with the default options has failed: three calls,
\* a sleep after the first and the second only, and the last error raised
RetryContractWitness ==
    /\ pc = "retry" /\ call.at = "raised"
    /\ call.option = Undefined /\ ~call.abortGiven
    /\ Len(RetryCalls) = 3
    /\ Len(call.log) = 5
    /\ call.outcome = Some("fail")

-----------------------------------------------------------------------------
(* Properties of the integration phase (specification SpecDriver).         *)

\* the tasks recorded as completed
CompletedIds(s) == WithStatus(s.tasks, "completed")

\* C21: runIntegration creates a remote session only when at least two tasks
\* are completed; with zero completed tasks it records integration.status =
\* failed with an error, sets phase to failed, saves and raises; with exactly
\* one completed task it sets mergedBranch to that task's branch,
\* integration.status and phase to completed, and returns prUrl = null.
IntegrationSpecialCases ==
    [][/\ (pc = "i_create" /\ pc' = "i_record") => Len(CompletedIds(state)) >= 2
       /\ (pc = "i_collect" /\ pc' # "dead" /\ Len(CompletedIds(state)) = 0) =>
             /\ state'.integration.status = "failed"
             /\ state'.integration.error # Null
             /\ state'.phase = "failed"
             /\ committed' = Some(state')
             /\ pc' = "i_raised"
             /\ state'.integration.sessionId = Null
       /\ (pc = "i_collect" /\ pc' # "dead" /\ Len(CompletedIds(state)) = 1) =>
             /\ state'.integration.mergedBranch =
                    Get(state.tasks, CompletedIds(state)[1]).branchName
             /\ state'.integration.mergedBranch # Null
             /\ state'.integration.status = "completed"
             /\ state'.phase = "completed"
             /\ pc' = "i_returned"
             /\ call'.result.prUrl = Null
             /\ state'.integration.sessionId = Null
       /\ (pc = "i_collect" /\ pc' # "dead" /\ Len(CompletedIds(state)) >= 2) =>
             pc' = "i_create"]_vars

\* runIntegration has returned for a project with one completed and one
\* failed task: the branch of the completed task is the result, no session
IntegrationSpecialCasesWitness ==
    /\ pc = "i_returned"
    /\ Len(CompletedIds(state)) = 1
    /\ Len(WithStatus(state.tasks, "failed")) = 1
    /\ state.integration.sessionId = Null
    /\ state.integration.mergedBranch = Get(state.tasks, CompletedIds(state)[1]).branchName
    /\ call.result.prUrl = Null
    /\ state.phase = "completed"

-----------------------------------------------------------------------------
(* slugify and expectedBranchName called on their own (specification       *)
(* SpecSlug).                                                               *)

InitSlug ==
    /\ \E cs \in Titles \cup SlugTitles, id \in {"t1", "2"} :
         call = [fn |-> "slugify", title |-> cs, id |-> id, slug |-> Null, branch |-> Null]
    /\ clock = 0
    /\ state = NoProject
    /\ pc = "slug"
    /\ files = NoFiles
    /\ committed = Null
    /\ maxParallel = 1
    /\ pending = <<>>
    /\ runningLen = 0
    /\ toSpawn = <<>>
    /\ toSpawnLen = 0
    /\ pollQueue = <<>>
    /\ session = <<>>
    /\ created = 0
    /\ everRunning = {}
    /\ startRunning = 0

\* slugify(title)
Slugify ==
    /\ pc = "slug"
    /\ call.slug = Null
    /\ call' = [call EXCEPT !.slug = Some(slugify(call.title))]
    /\ UNCHANGED progVars

\* expectedBranchName(task)
BranchName ==
    /\ pc = "slug"
    /\ call.branch = Null
    /\ call' = [call EXCEPT !.branch =
                   Some(expectedBranchName(Node(call.id, JoinChars(call.title), <<>>)))]
    /\ UNCHANGED progVars

NextSlug == Slugify \/ BranchName

SpecSlug == InitSlug /\ [][NextSlug]_vars

\* C22: for every title, slugify returns a string of at most 40 characters
\* made only of lowercase letters, digits and single hyphens that neither
\* starts nor ends with a hyphen; the expected branch name of a task is
\* "oi/" + task id + "-" + that slug.
BranchSlug ==
    pc = "slug" /\ call.slug # Null =>
        LET slug == Val(call.slug) IN
        /\ Len(slug) <= 40
        /\ \A i \in DOMAIN slug : slug[i] \in Range(LowerCase) \cup Digits \cup {"-"}
        /\ \A i \in 1..(Len(slug) - 1) : ~(slug[i] = "-" /\ slug[i + 1] = "-")
        /\ slug # <<>> => slug[1] # "-" /\ slug[Len(slug)] # "-"
        /\ call.branch # Null =>
              Val(call.branch) = "oi/" \o call.id \o "-" \o JoinChars(slug)

-----------------------------------------------------------------------------
(* loadProject and listProjects on a directory that holds good files, files *)
(* cut short, temporary files of a save under way and a file of another    *)
(* kind (specification SpecList).                                           *)

ListIds == {"p1", "p2", "p3"}
OtherFile == "notes.txt"

\* the names the directory may hold, in the two orders fs.readdir is taken
\* to list them
DirNames ==
    <<FinalPath("p1"), TmpPath("p1"), FinalPath("p2"), TmpPath("p2"),
      FinalPath("p3"), TmpPath("p3"), OtherFile>>
Reversed(s) == [i \in DOMAIN s |-> s[Len(s) + 1 - i]]
DirOrders == {DirNames, Reversed(DirNames)}

\* the project with identifier id as a save at time now leaves it
SavedProject(id, now) ==
    [Fresh([createdAt |-> 0, updatedAt |-> now]) EXCEPT !.id = id]

\* what the file of project id may hold: the whole text of a save or the
\* first half of it
Contents(id) ==
    {Whole(SavedProject(id, now)) : now \in 0..MaxClock}
        \cup {Prefix(SavedProject(id, 0), Len(Serialize(SavedProject(id, 0))) \div 2)}

DirFiles == [id \in ListIds |-> {Absent} \cup {File(c) : c \in Contents(id)}]
\* the temporary file of a save of project id: none, just opened, or written
\* and not yet renamed
DirTmpFiles ==
    [id \in ListIds |-> {Absent, File(Prefix(SavedProject(id, 0), 0)),
                         File(Whole(SavedProject(id, MaxClock)))}]

Directories ==
    {[p \in Range(DirNames) |->
         IF p = OtherFile THEN File(Prefix(SavedProject("p1", 0), 0))
         ELSE IF \E i \in ListIds : p = FinalPath(i)
              THEN final[CHOOSE i \in ListIds : p = FinalPath(i)]
              ELSE tmp[CHOOSE i \in ListIds : p = TmpPath(i)]] :
        final \in {f \in [ListIds -> UNION {DirFiles[i] : i \in ListIds}] :
                      \A i \in ListIds : f[i] \in DirFiles[i]},
        tmp \in {f \in [ListIds -> UNION {DirTmpFiles[i] : i \in ListIds}] :
                    \A i \in ListIds : f[i] \in DirTmpFiles[i]}}

\* entry.endsWith(suffix), for the names of the directory
EndsWith(entry, suffix) ==
    \E stem \in ListIds \cup {FinalPath(i) : i \in ListIds} \cup {"notes"} :
        entry = stem \o suffix

\* an entry that is read whatever its name
AnyEntry(entry) == TRUE

\* listProjects, line 152: the entries that are read
Listable(entry) == EndsWith(entry, ".json") /\ ~EndsWith(entry, ".tmp")

\* listProjects, lines 153-161: the body of the try block for one entry
ReadSummary(fs, entry) ==
    LET r == JsonParse(Text(fs[entry].content)) IN
    IF ~r.ok THEN Thrown("SyntaxError")
    ELSE LET project == FromJson(r.v) IN
         [ok |-> TRUE,
          v  |-> [id |-> project.id, goal |-> project.goal,
                  phase |-> project.phase, updatedAt |-> project.updatedAt]]

RECURSIVE CollectSummaries(_, _, _)
\* listProjects, lines 151-165: the loop over the entries; a throw of the try
\* block is caught and the entry skipped
CollectSummaries(fs, entries, results) ==
    IF entries = <<>> THEN results
    ELSE LET entry == Head(entries)
             r == ReadSummary(fs, entry)
         IN CollectSummaries(fs, Tail(entries),
                IF Listable(entry) /\ r.ok THEN Append(results, r.v) ELSE results)

RECURSIVE InsertByUpdatedAt(_, _)
\* the place of summary x in a sorted list: after every summary that the
\* comparator (a, b) => b.updatedAt - a.updatedAt does not put behind it
InsertByUpdatedAt(sorted, x) ==
    IF sorted = <<>> THEN <<x>>
    ELSE IF x.updatedAt - Head(sorted).updatedAt > 0
         THEN <<x>> \o sorted
         ELSE <<Head(sorted)>> \o InsertByUpdatedAt(Tail(sorted), x)

RECURSIVE SortByUpdatedAt(_, _)
\* results.sort(...), line 166: Array.prototype.sort is stable
SortByUpdatedAt(results, sorted) ==
    IF results = <<>> THEN sorted
    ELSE SortByUpdatedAt(Tail(results), InsertByUpdatedAt(sorted, Head(results)))

\* fs.readdir(dir): the names that exist, in the order of the file system
readdir(fs, order) == SelectSeq(order, LAMBDA p : fs[p].exists)

listProjects(fs, order) ==
    SortByUpdatedAt(CollectSummaries(fs, readdir(fs, order), <<>>), <<>>)

InitList ==
    /\ files \in Directories
    /\ \E order \in DirOrders :
         call = [fn |-> "listProjects", order |-> order, loaded |-> Null, listed |-> Null]
    /\ clock = 0
    /\ state = NoProject
    /\ pc = "list"
    /\ committed = Null
    /\ maxParallel = 1
    /\ pending = <<>>
    /\ runningLen = 0
    /\ toSpawn = <<>>
    /\ toSpawnLen = 0
    /\ pollQueue = <<>>
    /\ session = <<>>
    /\ created = 0
    /\ everRunning = {}
    /\ startRunning = 0

\* loadProject(id)
LoadProject ==
    /\ pc = "list"
    /\ call.loaded = Null
    /\ \E id \in ListIds :
         call' = [call EXCEPT !.loaded = Some([id |-> id, got |-> loadProject(files, id)])]
    /\ UNCHANGED progVars

\* listProjects()
ListProjects ==
    /\ pc = "list"
    /\ call.listed = Null
    /\ call' = [call EXCEPT !.listed = Some(listProjects(files, call.order))]
    /\ UNCHANGED progVars

NextList == LoadProject \/ ListProjects

SpecList == InitList /\ [][NextList]_vars

\* the file holds the whole text of a save
GoodFile(f) == f.exists /\ f.content.upto = Null

\* the projects with a good file under their final name
GoodIds == {i \in ListIds : GoodFile(files[FinalPath(i)])}

\* C23: loadProject returns absent (and does not raise) when the file is
\* missing or cannot be parsed, and the project otherwise; listProjects
\* returns, without raising, one summary for every parsable project file and
\* none for an unparsable file, a temporary file of a save under way or a
\* file of another kind, sorted by updatedAt from the latest to the earliest.
StoreReadsTolerant ==
    pc = "list" =>
        /\ call.loaded # Null =>
              LET l == Val(call.loaded) IN
              l.got = IF l.id \in GoodIds THEN Some(files[FinalPath(l.id)].content.of)
                      ELSE Null
        /\ call.listed # Null =>
              LET got == Val(call.listed) IN
              /\ {got[i].id : i \in DOMAIN got} = GoodIds
              /\ Len(got) = Cardinality(GoodIds)
              /\ \A i \in DOMAIN got :
                    LET project == files[FinalPath(got[i].id)].content.of IN
                    got[i] = [id |-> project.id, goal |-> project.goal,
                              phase |-> project.phase, updatedAt |-> project.updatedAt]
              /\ \A i \in 1..(Len(got) - 1) : got[i].updatedAt >= got[i + 1].updatedAt

\* a directory with two good files saved at different times, a file cut
\* short and a temporary file has been listed, and the project of the file
\* cut short has been asked for
StoreReadsTolerantWitness ==
    /\ pc = "list"
    /\ call.listed # Null
    /\ call.loaded # Null
    /\ Val(call.loaded).id \notin GoodIds
    /\ files[FinalPath(Val(call.loaded).id)].exists
    /\ \E i \in ListIds : files[TmpPath(i)].exists /\ GoodFile(files[TmpPath(i)])
    /\ Len(Val(call.listed)) = 2
    /\ Val(call.listed)[1].updatedAt > Val(call.listed)[2].updatedAt

-----------------------------------------------------------------------------
(* global-secrets.ts: GlobalSecretsStore, its calls made one at a time     *)
(* (specification SpecSecrets).  A key is a list of characters, a value a  *)
(* character repeated n times; the table global_secrets is a function from *)
(* the stored keys to their rows.                                          *)

MAX_SECRETS_PER_SCOPE == 50
MAX_VALUE_SIZE == 16384
MAX_TOTAL_VALUE_SIZE == 65536
RESERVED_KEYS == {"PATH"}

SecretsValidationError == Thrown("SecretsValidationError")

\* String.prototype.toUpperCase, one character
ToUpperChar(c) ==
    IF \E i \in DOMAIN LowerCase : LowerCase[i] = c
    THEN UpperCase[CHOOSE i \in DOMAIN LowerCase : LowerCase[i] = c]
    ELSE c

\* normalizeKey(rawKey): the key in upper case
normalizeKey(rawKey) == JoinChars([i \in DOMAIN rawKey |-> ToUpperChar(rawKey[i])])

\* validateKey(key) returns: a letter or an underscore, then letters, digits
\* and underscores, and no reserved name
KeyValid(rawKey) ==
    /\ rawKey # <<>>
    /\ rawKey[1] \in Range(UpperCase) \cup Range(LowerCase) \cup {"_"}
    /\ \A i \in DOMAIN rawKey :
          rawKey[i] \in Range(UpperCase) \cup Range(LowerCase) \cup Digits \cup {"_"}
    /\ normalizeKey(rawKey) \notin RESERVED_KEYS

\* new TextEncoder().encode(value).length
ByteLength(value) == value.n

\* validateValue(value) returns
ValueValid(value) == ByteLength(value) <= MAX_VALUE_SIZE

RECURSIVE TotalBytes(_)
\* setSecrets, line 32: the bytes of the values together
TotalBytes(secrets) ==
    IF secrets = <<>> THEN 0 ELSE ByteLength(Head(secrets)[2]) + TotalBytes(Tail(secrets))

\* setSecrets, lines 26-34: the loop over Object.entries(secrets); validateKey
\* or validateValue throws at the first entry that is not valid; a key met
\* again keeps its place in normalized and takes the later value
Normalize(secrets) ==
    IF \E i \in DOMAIN secrets : ~KeyValid(secrets[i][1]) \/ ~ValueValid(secrets[i][2])
    THEN SecretsValidationError
    ELSE LET keys == [i \in DOMAIN secrets |-> normalizeKey(secrets[i][1])]
             firsts == SelectSeq([i \in DOMAIN secrets |-> i],
                                 LAMBDA i : \A j \in 1..(i - 1) : keys[j] # keys[i])
             last(key) == CHOOSE i \in DOMAIN secrets :
                             keys[i] = key /\ \A j \in (i + 1)..Len(secrets) : keys[j] # key
         IN [ok |-> TRUE,
             normalized |-> [n \in DOMAIN firsts |->
                                <<keys[firsts[n]], secrets[last(keys[firsts[n]])][2]>>],
             totalValueBytes |-> TotalBytes(secrets)]

\* the test of line 47 with the present size instead of the size after the call
AtLimit(size, netNew) == size >= MAX_SECRETS_PER_SCOPE /\ netNew > 0

\* setSecrets, line 47
OverLimit(size, netNew) == size + netNew > MAX_SECRETS_PER_SCOPE

\* encryptToken(value, this.encryptionKey)
Encrypted(value) == [cipher |-> value]

\* setSecrets, lines 58-79: INSERT ... ON CONFLICT(key) DO UPDATE for every
\* entry of normalized, in one batch
Upsert(rows, normalized, now) ==
    LET incoming == {normalized[i][1] : i \in DOMAIN normalized}
        value(key) == normalized[CHOOSE i \in DOMAIN normalized : normalized[i][1] = key][2]
    IN [key \in DOMAIN rows \cup incoming |->
           IF key \in incoming
           THEN [encrypted_value |-> Encrypted(value(key)),
                 created_at |-> IF key \in DOMAIN rows THEN rows[key].created_at ELSE now,
                 updated_at |-> now]
           ELSE rows[key]]

\* deleteSecret(key): DELETE FROM global_secrets WHERE key = normalizeKey(key)
deleteSecret(rows, rawKey) ==
    LET key == normalizeKey(rawKey) IN
    [rows   |-> [k \in DOMAIN rows \ {key} |-> rows[k]],
     result |-> [ok |-> TRUE, v |-> key \in DOMAIN rows]]

DigitChars == <<"0", "1", "2", "3", "4", "5", "6", "7", "8", "9">>
RECURSIVE Decimal(_)
Decimal(n) ==
    IF n < 10 THEN <<DigitChars[n + 1]>>
    ELSE Decimal(n \div 10) \o <<DigitChars[(n % 10) + 1]>>

Value(ch, n) == [ch |-> ch, n |-> n]
Small(ch) == Value(ch, 1)

\* the keys KEY_from .. KEY_to with value "x"
Many(from, to) == [i \in 1..(to - from + 1) |-> <<<<"K", "E", "Y", "_">> \o Decimal(from + i - 1), Small("x")>>]

\* the arguments of setSecrets
SecretsInputs ==
    {<<>>,
     Many(0, MAX_SECRETS_PER_SCOPE - 1),
     Many(1, MAX_SECRETS_PER_SCOPE - 1),
     <<<<<<"E", "X", "T", "R", "A">>, Small("y")>>>>,
     <<<<<<"E", "X", "T", "R", "A">>, Small("y")>>, <<<<"O", "T", "H", "E", "R">>, Small("z")>>>>,
     <<<<<<"k", "e", "y", "_", "0">>, Small("y")>>>>,
     <<<<<<"K", "E", "Y", "_", "0">>, Small("x")>>, <<<<"E", "X", "T", "R", "A">>, Small("x")>>>>,
     <<<<<<"f", "o", "o">>, Small("o")>>, <<<<"F", "O", "O">>, Small("t")>>>>,
     <<<<<<"E", "X", "T", "R", "A">>, Small("n")>>, <<<<"P", "A", "T", "H">>, Small("n")>>>>,
     <<<<<<"1", "B", "A", "D">>, Small("n")>>>>,
     <<<<<<"E", "X", "T", "R", "A">>, Small("n")>>,
       <<<<"B", "I", "G">>, Value("a", MAX_VALUE_SIZE + 1)>>>>,
     [i \in 1..5 |-> <<<<UpperCase[i]>>, Value("a", MAX_VALUE_SIZE)>>]}

\* the arguments of deleteSecret
DeleteInputs == {<<"k", "e", "y", "_", "0">>, <<"E", "X", "T", "R", "A">>, <<"N", "O", "P", "E">>}

\* the loop of lines 26-34 on each argument, computed once
Normalized == [secrets \in SecretsInputs |-> Normalize(secrets)]

setSecrets(rows, secrets, now) ==
    LET n == Normalized[secrets] IN
    IF ~n.ok THEN [rows |-> rows, result |-> n]
    ELSE IF n.totalValueBytes > MAX_TOTAL_VALUE_SIZE
         THEN [rows |-> rows, result |-> SecretsValidationError]
    ELSE LET existingKeySet == DOMAIN rows
             incomingKeys == [i \in DOMAIN n.normalized |-> n.normalized[i][1]]
             netNew == Cardinality(Range(incomingKeys) \ existingKeySet)
         IN IF OverLimit(Cardinality(existingKeySet), netNew)
            THEN [rows |-> rows, result |-> SecretsValidationError]
            ELSE [rows   |-> Upsert(rows, n.normalized, now),
                  result |-> [ok |-> TRUE,
                              v  |-> [created |-> netNew,
                                      updated |-> Len(incomingKeys) - netNew,
                                      keys |-> incomingKeys]]]

InitSecrets ==
    /\ call = [fn |-> "GlobalSecretsStore", rows |-> <<>>, last |-> Null]
    /\ clock = 0
    /\ state = NoProject
    /\ pc = "secrets"
    /\ files = NoFiles
    /\ committed = Null
    /\ maxParallel = 1
    /\ pending = <<>>
    /\ runningLen = 0
    /\ toSpawn = <<>>
    /\ toSpawnLen = 0
    /\ pollQueue = <<>>
    /\ session = <<>>
    /\ created = 0
    /\ everRunning = {}
    /\ startRunning = 0

\* store.setSecrets(secrets), at a time now that is not before the last call
SetSecrets ==
    /\ pc = "secrets"
    /\ \E secrets \in SecretsInputs, now \in clock..MaxClock :
         LET r == setSecrets(call.rows, secrets, now) IN
         /\ call' = [call EXCEPT !.rows = r.rows,
                                 !.last = Some([op |-> "setSecrets", secrets |-> secrets,
                                                result |-> r.result])]
         /\ clock' = now
    /\ UNCHANGED <<state, pc, files, committed, schedVars>>

\* store.deleteSecret(key)
DeleteSecret ==
    /\ pc = "secrets"
    /\ \E key \in DeleteInputs :
         LET r == deleteSecret(call.rows, key) IN
         call' = [call EXCEPT !.rows = r.rows,
                              !.last = Some([op |-> "deleteSecret", key |-> key,
                                             result |-> r.result])]
    /\ UNCHANGED progVars

NextSecrets == SetSecrets \/ DeleteSecret

SpecSecrets == InitSecrets /\ [][NextSecrets]_vars

\* the keys the table would hold after secrets are set
NormalKeys ==
    [secrets \in SecretsInputs |-> {normalizeKey(secrets[i][1]) : i \in DOMAIN secrets}]
KeysAfter(rows, secrets) == DOMAIN rows \cup NormalKeys[secrets]

\* some key or value of secrets is not valid, or the values together are too
\* large
Invalid(secrets) ==
    \/ \E i \in DOMAIN secrets : ~KeyValid(secrets[i][1]) \/ ~ValueValid(secrets[i][2])
    \/ TotalBytes(secrets) > MAX_TOTAL_VALUE_SIZE
InvalidInputs == {secrets \in SecretsInputs : Invalid(secrets)}

\* C24: after any sequence of setSecrets and deleteSecret calls made one at a
\* time the table holds at most MAX_SECRETS_PER_SCOPE keys, and a setSecrets
\* call that would exceed the limit or whose keys, values or total size are
\* not valid raises SecretsValidationError and leaves the table as it was.
SecretsLimit ==
    /\ [](pc = "secrets" => Cardinality(DOMAIN call.rows) <= MAX_SECRETS_PER_SCOPE)
    /\ [][pc = "secrets" /\ Val(call'.last).op = "setSecrets"
            => LET secrets == Val(call'.last).secrets IN
               (secrets \in InvalidInputs
                   \/ Cardinality(KeysAfter(call.rows, secrets)) > MAX_SECRETS_PER_SCOPE)
               => /\ Val(call'.last).result = SecretsValidationError
                  /\ call'.rows = call.rows]_vars

\* the table is full and the last call, which would have added a key, was
\* refused
SecretsLimitWitness ==
    /\ pc = "secrets"
    /\ Cardinality(DOMAIN call.rows) = MAX_SECRETS_PER_SCOPE
    /\ call.last # Null
    /\ Val(call.last).op = "setSecrets"
    /\ Val(call.last).result = SecretsValidationError
    /\ Val(call.last).secrets \notin InvalidInputs

-----------------------------------------------------------------------------
(* Properties of the remote calls of the planning and integration phases.  *)

\* createSession or sendPrompt of runPlanning throws
PlanningCallThrows == pc \in {"p_create", "p_prompt"} /\ pc' = "exit"

\* createSession or sendPrompt of runIntegration throws
IntegrationCallThrows == pc \in {"i_create", "i_prompt"} /\ pc' = "i_raised"

\* C27: when createSession or sendPrompt fails during planning or during
\* integration, the planning / integration sub-state has status failed and
\* an error text, and is saved so, when the error leaves the phase
\* controller; it is not left with status running.
RemoteErrorsRecorded ==
    [][/\ PlanningCallThrows =>
             /\ state'.planning.status = "failed"
             /\ state'.planning.error # Undefined
             /\ committed' = Some(state')
       /\ IntegrationCallThrows =>
             /\ state'.integration.status = "failed"
             /\ state'.integration.error # Undefined
             /\ committed' = Some(state')]_vars

-----------------------------------------------------------------------------
(* pollForCompletion of the planner (planner.ts) and of the integrator     *)
(* (part_005), and what runPlanning and runIntegration do with its outcome *)
(* (specification SpecPoll).  The remote session is a log of events that   *)
(* grows between two polls; getEvents answers with the log, oldest or      *)
(* newest event first.                                                     *)

MaxPolls == 3

\* the text of a planner session that proposes PlanPair, in two token events
PlanText == Prose \o JsonFence(Stringify(PlanTree(PlanPair)))
ChunkCut == Len(Prose) + ((Len(PlanText) - Len(Prose)) \div 2)
ChunkA == SubSeq(PlanText, 1, ChunkCut)
ChunkB == SubSeq(PlanText, ChunkCut + 1, Len(PlanText))

\* an event of the session with its identifier
Identified(id, ev) ==
    [id |-> id, type |-> ev.type, content |-> ev.content, success |-> ev.success,
     error |-> ev.error]

\* execution_complete with success false and no error text
FailedNoTextEvent == Event("execution_complete", Undefined, "false", Undefined)
ReadyEvent == Event("ready", Undefined, "absent", Undefined)

SessionEvents ==
    {Identified("e1", TokenEvent(ChunkA)),
     Identified("e2", TokenEvent(ChunkB)),
     Identified("e3", ReadyEvent),
     Identified("e5", CompleteEvent),
     Identified("e6", FailedEvent),
     Identified("e7", FailedNoTextEvent),
     Identified("e8", ErrorEvent)}

\* what getSession answers: the sandbox status and whether a prompt is being
\* processed (a stopped sandbox processes nothing)
SessionAnswers ==
    {<<"running", TRUE>>, <<"ready", TRUE>>, <<"ready", FALSE>>, <<"stopped", FALSE>>}

\* what getSession and getEvents answer at one poll
PollAnswer(sandboxStatus, isProcessing, events) ==
    [sandboxStatus |-> sandboxStatus, isProcessing |-> isProcessing, events |-> events]

\* getEvents(sessionId, { limit: 200 }) on a log shorter than the limit
Window(log, order) == IF order = "oldest first" THEN log ELSE Reversed(log)

\* the events of a window whatever has been seen
AllOf(seen, events) == events

\* lines 119-120: the events of a window that are not skipped (the events
\* of a window have different identifiers)
Unseen(seen, events) == SelectSeq(events, LAMBDA e : e.id \notin seen)

\* lines 125-128, 129-131: the event shows that the agent has started
Starts(e) == (e.type = "token" /\ e.content # Undefined) \/ e.type = "ready"

\* planner.ts, lines 132-140: the error text that the events of one poll
\* leave in executionError (the later event wins)
ExecutionError(events) ==
    LET texts == SelectSeq(events, LAMBDA e :
                     \/ e.type = "execution_complete" /\ e.success = "false"
                            /\ e.error # Undefined
                     \/ e.type = "error" /\ e.error # Undefined)
    IN IF texts = <<>> THEN Null ELSE texts[Len(texts)].error

\* the fallback of lines 152-154 without the test of hasStarted
StoppedOnly(hasStarted, sandboxStatus) == sandboxStatus = "stopped"

\* lines 152-154
StoppedAfterStart(hasStarted, sandboxStatus) == hasStarted /\ sandboxStatus = "stopped"

\* tokenChunks.join("")
JoinChunks(chunks) == ConcatAll(chunks)

\* one turn of the loop of pollForCompletion for the answer a: the locals it
\* leaves, and whether the loop breaks or the function throws
PollTurn(who, c, a) ==
    LET new == Unseen(c.seenEventIds, a.events)
        tokens == SelectSeq(new, LAMBDA e : e.type = "token" /\ e.content # Undefined)
        hasStarted == c.hasStarted \/ a.isProcessing \/ \E i \in DOMAIN new : Starts(new[i])
        executionComplete == \E i \in DOMAIN new : new[i].type = "execution_complete"
        executionError == IF who = "planner" THEN ExecutionError(new) ELSE Null
    IN [seenEventIds |-> c.seenEventIds \cup {new[i].id : i \in DOMAIN new},
        tokenChunks  |-> c.tokenChunks \o [i \in DOMAIN tokens |-> Val(tokens[i].content)],
        hasStarted   |-> hasStarted,
        throws       |-> executionComplete /\ executionError # Null,
        breaks       |-> executionComplete \/ StoppedAfterStart(hasStarted, a.sandboxStatus)]

\* the project when runPlanning calls pollForCompletion (lines 27-48)
PlanningProject ==
    [createProject("goal", SampleRepo, "model", 0) EXCEPT
        !.phase = "planning",
        !.planning.status = "running",
        !.planning.sessionId = Some(PlannerSession)]

\* a task of the plan that has completed
CompletedExecution(node) ==
    [NewExecution(node.id) EXCEPT
        !.status = "completed", !.sessionId = Some("s-" \o node.id),
        !.branchName = Some(expectedBranchName(node)),
        !.startedAt = Some(0), !.completedAt = Some(0), !.summary = Some("ok")]

\* the project when runIntegration calls pollForCompletion (part_005, lines
\* 30-85): two completed tasks, the merge session created
IntegratingProject ==
    [Approved(PlanPair, 0) EXCEPT
        !.tasks = [i \in DOMAIN PlanPair |-> <<PlanPair[i].id, CompletedExecution(PlanPair[i])>>],
        !.phase = "integrating",
        !.integration.status = "running",
        !.integration.sessionId = Some(IntegrationSession)]

\* the logs of a session at the first poll
FirstLogs ==
    {<<>>} \cup {<<e>> : e \in SessionEvents}
           \cup {p \in {<<d, e>> : d \in SessionEvents, e \in SessionEvents} : p[1] # p[2]}

\* the texts pollForCompletion can return for these sessions
PollTexts == {<<>>, ChunkA, ChunkB, ChunkA \o ChunkB, ChunkB \o ChunkA}

\* runPlanning, lines 55-86, on each of them, computed once
PollOutcomes == [text \in PollTexts |-> PlanningOutcome(PlanningProject, text)]

InitPoll ==
    /\ \E who \in {"planner", "integrator"}, order \in {"oldest first", "newest first"} :
         /\ call = [fn |-> "pollForCompletion", who |-> who, order |-> order,
                    seenEventIds |-> {}, tokenChunks |-> <<>>, hasStarted |-> FALSE,
                    polls |-> <<>>, result |-> Null, raised |-> Null]
         /\ state = IF who = "planner" THEN PlanningProject ELSE IntegratingProject
    /\ session \in FirstLogs
    /\ committed = Some(state)
    /\ files = WriteAndRename(NoFiles, state)
    /\ pc = "poll"
    /\ clock = 0
    /\ maxParallel = 1
    /\ pending = <<>>
    /\ runningLen = 0
    /\ toSpawn = <<>>
    /\ toSpawnLen = 0
    /\ pollQueue = <<>>
    /\ created = 0
    /\ everRunning = {}
    /\ startRunning = 0

\* one turn of the loop: sleep, getSession, getEvents, the scan of the events
\* and the two tests that end the loop; getSession or getEvents may reject
PollOnce ==
    /\ pc = "poll"
    /\ Len(call.polls) < MaxPolls
    /\ \/ /\ call' = [call EXCEPT !.result = Some(Thrown("fetch failed"))]
          /\ pc' = "polled"
       \/ \E s \in SessionAnswers :
            LET a == PollAnswer(s[1], s[2], Window(session, call.order))
                t == PollTurn(call.who, call, a)
            IN /\ call' = [call EXCEPT
                              !.seenEventIds = t.seenEventIds,
                              !.tokenChunks = t.tokenChunks,
                              !.hasStarted = t.hasStarted,
                              !.polls = Append(@, a),
                              !.result = IF t.throws
                                         THEN Some(Thrown("Agent execution failed"))
                                         ELSE IF t.breaks
                                         THEN Some([ok |-> TRUE, v |-> JoinChunks(t.tokenChunks)])
                                         ELSE Null]
               /\ pc' = IF t.throws \/ t.breaks THEN "polled" ELSE "poll"
    /\ UNCHANGED <<state, storeVars, clock, maxParallel, loopVars, session, created,
                   everRunning, startRunning>>

\* the agent or the sandbox adds an event to the session between two polls
SessionEvent ==
    /\ pc = "poll"
    /\ call.polls # <<>>
    /\ Len(session) = Len(call.polls[Len(call.polls)].events)
    /\ \E e \in SessionEvents \ Range(session) : session' = Append(session, e)
    /\ UNCHANGED <<call, state, storeVars, pc, clock, maxParallel, loopVars, created,
                   everRunning, startRunning>>

\* runPlanning, lines 52-86: pollForCompletion has thrown and runPlanning
\* raises, or the plan is extracted from the text, validated and recorded
PlanningContinue ==
    /\ pc = "polled"
    /\ call.who = "planner"
    /\ LET r == Val(call.result) IN
       IF ~r.ok
       THEN /\ call' = [call EXCEPT !.raised = Some(TRUE)]
            /\ UNCHANGED <<state, storeVars>>
       ELSE LET out == PollOutcomes[r.v] IN
            /\ call' = [call EXCEPT !.raised = Some(out.raises)]
            /\ IF out.saves THEN Saved(out.state) ELSE UNCHANGED <<state, storeVars>>
    /\ pc' = "done"
    /\ UNCHANGED <<clock, schedVars>>

\* runIntegration, lines 89-109: pollForCompletion, getSession or
\* getArtifacts has thrown and runIntegration raises, or the merge is recorded
IntegrationContinue ==
    /\ pc = "polled"
    /\ call.who = "integrator"
    /\ \/ /\ call' = [call EXCEPT !.raised = Some(TRUE)]
          /\ UNCHANGED <<state, storeVars>>
       \/ /\ Val(call.result).ok
          /\ \E a \in MergeAnswers :
               Saved([state EXCEPT !.integration.status = "completed",
                                   !.integration.mergedBranch = a.branchName,
                                   !.integration.prUrl = a.prUrl,
                                   !.phase = "completed"])
          /\ call' = [call EXCEPT !.raised = Some(FALSE)]
    /\ pc' = "done"
    /\ UNCHANGED <<clock, schedVars>>

NextPoll == PollOnce \/ SessionEvent \/ PlanningContinue \/ IntegrationContinue

SpecPoll == InitPoll /\ [][NextPoll]_vars

-----------------------------------------------------------------------------
(* Properties of pollForCompletion, stated on the answers of its polls.    *)

InPollLoop == pc \in {"poll", "polled", "done"}

\* the identifiers that the polls before poll n returned
ReturnedBefore(n) ==
    UNION {{call.polls[k].events[i].id : i \in DOMAIN call.polls[k].events} : k \in 1..(n - 1)}

\* the events that poll n returned and no earlier poll had returned
FirstReturnedAt(n) ==
    SelectSeq(call.polls[n].events, LAMBDA e : e.id \notin ReturnedBefore(n))

\* the events in the order in which the polls first returned them
FirstObserved == ConcatAll([n \in DOMAIN call.polls |-> FirstReturnedAt(n)])

\* poll n or an earlier poll showed that the agent had started
StartObserved(n) ==
    \E k \in 1..n :
        \/ call.polls[k].isProcessing
        \/ \E i \in DOMAIN call.polls[k].events :
              call.polls[k].events[i].type \in {"token", "ready"}

\* poll n returned an execution_complete event that no earlier poll returned
CompleteFirstAt(n) ==
    \E i \in DOMAIN call.polls[n].events :
        /\ call.polls[n].events[i].type = "execution_complete"
        /\ call.polls[n].events[i].id \notin ReturnedBefore(n)

PollReturned == call.result # Null /\ Val(call.result).ok

\* C25: pollForCompletion (planner and integrator) returns only at a poll
\* that saw a not yet seen execution_complete event, or at a poll where the
\* sandbox is stopped and a start (isProcessing, a token event or a ready
\* event) was observed in this or an earlier poll; a poll with a sandbox that
\* is not stopped and no new execution_complete does not end the loop, nor
\* does a stopped sandbox before any start was observed.
CompletionDetection ==
    InPollLoop =>
        LET n == Len(call.polls) IN
        /\ PollReturned =>
              /\ n >= 1
              /\ \/ CompleteFirstAt(n)
                 \/ call.polls[n].sandboxStatus = "stopped" /\ StartObserved(n)
        /\ n >= 1 /\ ~CompleteFirstAt(n) /\ call.polls[n].sandboxStatus # "stopped"
              => ~PollReturned
        /\ n >= 1 /\ ~CompleteFirstAt(n) /\ ~StartObserved(n) => ~PollReturned

\* the loop went on at a stopped sandbox before any start, went on at a
\* ready sandbox that showed the start, and returned at the third poll on a
\* stopped sandbox, no execution_complete event ever returned
CompletionDetectionWitness ==
    /\ InPollLoop
    /\ PollReturned
    /\ Len(call.polls) = 3
    /\ call.polls[1].sandboxStatus = "stopped" /\ ~StartObserved(1)
    /\ call.polls[2].sandboxStatus = "ready" /\ StartObserved(2)
    /\ call.polls[3].sandboxStatus = "stopped" /\ ~call.polls[3].isProcessing
    /\ \A k \in 1..3 : ~CompleteFirstAt(k)

\* some poll returned an execution_complete event with success false or an
\* error event
FailureObserved ==
    \E k \in DOMAIN call.polls : \E i \in DOMAIN call.polls[k].events :
        LET e == call.polls[k].events[i] IN
        \/ e.type = "execution_complete" /\ e.success = "false"
        \/ e.type = "error"

\* C26: if the execution_complete event of the session indicates failure
\* (success false, with or without an error text) or an error event was
\* observed during polling, runPlanning and runIntegration raise, and the
\* phase does not advance to approval (planner) or completed (integrator).
FailureSurfaced ==
    (pc = "done" /\ FailureObserved) =>
        /\ Val(call.raised)
        /\ state.phase \notin {"approval", "completed"}

\* the payloads of the token events among es, in their order
Payloads(es) ==
    LET tokens == SelectSeq(es, LAMBDA e : e.type = "token")
    IN [i \in DOMAIN tokens |-> Val(tokens[i].content)]

\* C28: in the poll loop of the planner every event identifier contributes
\* its token payload to the buffer at most once however many polls return
\* the event, every token event returned by some poll contributes exactly
\* once, and the text returned is the concatenation of the payloads in the
\* order of first observation.
TokenDeduplication ==
    (InPollLoop /\ call.who = "planner") =>
        /\ call.tokenChunks = Payloads(FirstObserved)
        /\ PollReturned => Val(call.result).v = ConcatAll(Payloads(FirstObserved))

\* the planner returned the text of two token events, the first of them
\* returned by two polls and the second by the later poll only
TokenDeduplicationWitness ==
    /\ InPollLoop
    /\ call.who = "planner"
    /\ PollReturned
    /\ Len(call.polls) >= 2
    /\ \E i \in DOMAIN call.polls[1].events : call.polls[1].events[i].id = "e1"
    /\ \A i \in DOMAIN call.polls[1].events : call.polls[1].events[i].id # "e2"
    /\ \E i \in DOMAIN call.polls[2].events : call.polls[2].events[i].id = "e1"
    /\ \E i \in DOMAIN call.polls[2].events : call.polls[2].events[i].id = "e2"
    /\ Val(call.result).v = ChunkA \o ChunkB

-----------------------------------------------------------------------------
(* pollTask called on its own, on a project under execution and every      *)
(* answer of the control plane (specification SpecPollTask).               *)

\* a task of the plan as spawnTask leaves it (part_007, lines 155-171)
RunningExecution(node, n, now) ==
    [Started(NewExecution(node.id), now) EXCEPT
        !.sessionId = Some(SessionName(n)),
        !.branchName = Some(expectedBranchName(node))]

\* the projects under execution: the first task of the plan is running, the
\* second is running, pending or completed
ExecutingProjects ==
    {[Approved(PlanPair, 0) EXCEPT
         !.tasks = << <<"t1", RunningExecution(PlanPair[1], 1, 0)>>, <<"t2", second>> >>] :
        second \in {RunningExecution(PlanPair[2], 2, 0),
                    NewExecution("t2"),
                    [CompletedExecution(PlanPair[2]) EXCEPT !.sessionId = Some(SessionName(2))]}}

\* a token payload one character short of the limit of the summary
LongPayload == Repeat("x", SummaryLimit - 1)

\* further answers with the terminal signal: a text longer than the summary,
\* a token event without a string payload, an error event with and without a
\* text beside the signal, an empty branch name
RetiringAnswers ==
    {Answer(FALSE, "ready", Some("oi/remote"),
            <<TokenEvent(LongPayload), TokenEvent(<<"y", "z">>), CompleteEvent>>),
     Answer(FALSE, "running", Null,
            <<Event("token", Undefined, "absent", Undefined), TokenEvent(<<"o">>),
              CompleteEvent>>),
     Answer(FALSE, "stopped", Some(""), <<TokenEvent(<<"o">>), ErrorEvent>>),
     Answer(FALSE, "stopped", Null,
            <<Event("error", Undefined, "absent", Undefined), TokenEvent(<<"o">>)>>),
     Answer(FALSE, "ready", Some("oi/remote"),
            <<ErrorEvent, TokenEvent(<<"o">>), CompleteEvent>>),
     Answer(FALSE, "ready", Null,
            <<TokenEvent(<<"o">>), Event("execution_complete", Undefined, "false", Undefined)>>)}

AllAnswers == UNION {Answers(stage) : stage \in Stages} \cup RetiringAnswers

InitPollTask ==
    /\ state \in ExecutingProjects
    /\ \E id \in {"t1", "t2"}, a \in AllAnswers :
         /\ Get(state.tasks, id).status = "running"
         /\ call = [fn |-> "pollTask", id |-> id, answer |-> a, before |-> Null]
    /\ clock \in 0..MaxClock
    /\ committed = Some(state)
    /\ files = WriteAndRename(NoFiles, state)
    /\ pc = "polltask"
    /\ maxParallel = 1
    /\ pending = <<>>
    /\ runningLen = 0
    /\ toSpawn = <<>>
    /\ toSpawnLen = 0
    /\ pollQueue = <<>>
    /\ session = <<>>
    /\ created = 0
    /\ everRunning = {}
    /\ startRunning = 0

\* pollTask(client, state, exec) for the answer of the control plane
PollTaskCall ==
    /\ pc = "polltask"
    /\ call.before = Null
    /\ LET r == pollTask(Get(state.tasks, call.id), call.answer, clock) IN
         IF r.saves THEN Saved(SetTask(state, call.id, r.exec))
         ELSE UNCHANGED <<state, storeVars>>
    /\ call' = [call EXCEPT !.before = Some(state)]
    /\ UNCHANGED <<pc, clock, schedVars>>

NextPollTask == PollTaskCall

SpecPollTask == InitPollTask /\ [][NextPollTask]_vars

PollTaskReturned == pc = "polltask" /\ call.before # Null /\ ~call.answer.throws

\* the event window of the answer holds an event of this type
WindowHolds(type) ==
    \E i \in DOMAIN call.answer.events : call.answer.events[i].type = type

\* C29: pollTask changes no field of a running task at a poll where the
\* sandbox status is pending, warming or syncing, even if the window holds
\* execution_complete, nor at a poll where the status is not stopped and the
\* window holds no execution_complete; a ready sandbox alone never retires a
\* task.
PollKeepsRunning ==
    (/\ PollTaskReturned
     /\ \/ call.answer.sandboxStatus \in {"pending", "warming", "syncing"}
        \/ call.answer.sandboxStatus # "stopped" /\ ~WindowHolds("execution_complete"))
    => /\ state = Val(call.before)
       /\ committed = call.before
       /\ Get(state.tasks, call.id).status = "running"

\* a poll answered by a syncing sandbox whose window holds
\* execution_complete has left the task running
PollKeepsRunningWitness ==
    /\ PollTaskReturned
    /\ call.answer.sandboxStatus = "syncing"
    /\ WindowHolds("execution_complete")
    /\ Get(state.tasks, call.id) = Get(Val(call.before).tasks, call.id)
    /\ Get(state.tasks, call.id).status = "running"

\* C30: a running task whose polled event window holds an error event, the
\* sandbox being past start-up, is set to failed at that poll, also when the
\* window holds no execution_complete and the sandbox is not stopped.
ErrorEventRetires ==
    (/\ PollTaskReturned
     /\ call.answer.sandboxStatus \notin {"pending", "warming", "syncing"}
     /\ WindowHolds("error"))
    => Get(state.tasks, call.id).status = "failed"

\* the concatenation of the string payloads of the token events, in order
RECURSIVE TokenText(_)
TokenText(events) ==
    IF events = <<>> THEN <<>>
    ELSE (IF Head(events).type = "token" /\ Head(events).content # Undefined
          THEN Val(Head(events).content) ELSE <<>>) \o TokenText(Tail(events))

\* the last n characters of a text
LastChars(cs, n) == [i \in 1..Min(n, Len(cs)) |-> cs[Len(cs) - Min(n, Len(cs)) + i]]

\* the window of the answer holds an error event or an execution_complete
\* with success = false
WindowFails ==
    \E i \in DOMAIN call.answer.events :
        \/ call.answer.events[i].type = "error"
        \/ /\ call.answer.events[i].type = "execution_complete"
           /\ call.answer.events[i].success = "false"

\* the poll has retired the task
Retired ==
    /\ PollTaskReturned
    /\ Get(Val(call.before).tasks, call.id).status = "running"
    /\ Get(state.tasks, call.id).status # "running"

\* C31: when pollTask retires a task it sets status failed with a non-null
\* error if the window holds an error event or an execution_complete with
\* success = false, and status completed with error null otherwise; in both
\* cases completedAt is set, branchName is the branch name of the session
\* when it reports one and the expected name recorded at spawn otherwise,
\* summary is the last 500 characters of the concatenated token payloads,
\* and the state is saved.
RetiringOutcome ==
    Retired =>
        LET before == Get(Val(call.before).tasks, call.id)
            after == Get(state.tasks, call.id)
            node == NodeOf(state, call.id)
        IN /\ IF WindowFails
              THEN after.status = "failed" /\ after.error # Null
              ELSE after.status = "completed" /\ after.error = Null
           /\ after.completedAt = Some(clock)
           /\ after.branchName =
                  IF call.answer.branchName \notin {Null, Some("")}
                  THEN call.answer.branchName
                  ELSE Some(expectedBranchName(node))
           /\ after.summary = Some(JoinChars(LastChars(TokenText(call.answer.events), 500)))
           /\ after.sessionId = before.sessionId /\ after.startedAt = before.startedAt
           /\ committed = Some(state)
           /\ loadProject(files, ProjectId) = Some(state)

\* a poll has retired a task whose session wrote 501 characters: the summary
\* is the last 500 of them and the branch is the one the session reports
RetiringOutcomeWitness ==
    /\ Retired
    /\ Len(TokenText(call.answer.events)) = 501
    /\ Get(state.tasks, call.id).status = "completed"
    /\ Get(state.tasks, call.id).summary = Some(JoinChars(Repeat("x", 498) \o <<"y", "z">>))
    /\ Get(state.tasks, call.id).branchName = Some("oi/remote")
    /\ committed = Some(state)

-----------------------------------------------------------------------------
(* Polls that the control plane does not answer (specification LiveSpec).  *)

\* getSession or getEvents throws
TransportFailure == Answer(TRUE, "running", Null, <<>>)

\* pollTask for the task at the head of the queue, answered by a throw
FailedPoll(id) == \E stage \in Stages : Poll(id, stage, TransportFailure)

\* the task has been polled in this cycle and is still running
PolledStillRunning(id) ==
    /\ pc = "poll"
    /\ id \in Tracked
    /\ StatusOf(state.tasks, id) = "running"
    /\ id \notin Range(pollQueue)

\* pollTask is about to be called for the task
BeingPolled(id) == pc = "poll" /\ pollQueue # <<>> /\ Head(pollQueue) = id

\* C32: when getSession or getEvents fails for a running task, the record of
\* that task is unchanged (still running, same sessionId), the other running
\* tasks are still polled in the same cycle, runExecution does not raise, and
\* the task is polled again in the next cycle.
FailOpenPolling ==
    /\ [][\A id \in DOMAIN session :
            FailedPoll(id) =>
               /\ state' = state
               /\ StatusOf(state'.tasks, id) = "running"
               /\ Get(state'.tasks, id).sessionId = Get(state.tasks, id).sessionId
               /\ committed' = committed /\ files' = files
               /\ pc' = "poll"
               /\ pollQueue' = Tail(pollQueue)]_vars
    /\ [][(pc = "poll" /\ pc' # "poll") => pollQueue = <<>> /\ pc' = "loop"]_vars
    /\ \A id \in AllIds : PolledStillRunning(id) ~> BeingPolled(id)

\* a task has been polled and is still running while another running task
\* waits for its poll in the same cycle
FailOpenPollingWitness ==
    /\ pc = "poll"
    /\ \E id \in Tracked : PolledStillRunning(id)
    /\ pollQueue # <<>>
    /\ StatusOf(state.tasks, Head(pollQueue)) = "running"
    /\ clock = MaxClock

-----------------------------------------------------------------------------
(* The order of record and prompt (specification SpecDriver).              *)

\* the project that the last completed save wrote is the one on disk
Stored(s) == committed = Some(s) /\ loadProject(files, ProjectId) = Some(s)

\* C33: for every remote session created by the planner, the integrator or
\* the scheduler, the project state that records the session id is saved
\* before sendPrompt is issued to that session, so a crash after the prompt
\* was sent never loses the session handle.
PersistBeforePrompt ==
    /\ pc \in {"p_prompt", "p_poll"} =>
          /\ state.planning.sessionId = Some(PlannerSession)
          /\ Stored(state)
    /\ pc \in {"i_prompt", "i_poll"} =>
          /\ state.integration.sessionId = Some(IntegrationSession)
          /\ Stored(state)
    /\ pc = "prompt" =>
          /\ Get(state.tasks, Head(toSpawn)).sessionId = Some(SessionName(created))
          /\ Stored(state)
    /\ \A id \in DOMAIN session :
          session[id] \in {"working", "done", "done_failed"} =>
             /\ committed # Null
             /\ Get(Val(committed).tasks, id).sessionId # Null

\* the integrator is about to send its prompt: the stored project records the
\* sessions of the planner, of two tasks and of the integrator
PersistBeforePromptWitness ==
    /\ pc = "i_prompt"
    /\ Stored(state)
    /\ state.planning.sessionId = Some(PlannerSession)
    /\ state.integration.sessionId = Some(IntegrationSession)
    /\ Len(CompletedIds(state)) >= 2
    /\ \A i \in DOMAIN state.tasks :
           state.tasks[i][2].status = "completed" => state.tasks[i][2].sessionId # Null


\* the process is suspended on the sleep of a poll interval: the scheduler with
\* its spawns done and something running (part_007, line 114), the planner and
\* the integrator inside pollForCompletion
AtPollSleep ==
    \/ pc \in {"p_poll", "i_poll"}
    \/ pc = "spawn" /\ toSpawn = <<>> /\ ~(runningLen = 0 /\ toSpawnLen = 0)

\* C34: whenever the scheduler or a phase controller suspends on its
\* poll-interval sleep, the last saved project equals the project in memory
\* in phase, planning, plan, integration and every task field, so killing the
\* process during any sleep loses no recorded transition.
NoUnsavedMutation ==
    AtPollSleep =>
        /\ committed # Null
        /\ Val(committed).phase = state.phase
        /\ Val(committed).planning = state.planning
        /\ Val(committed).plan = state.plan
        /\ Val(committed).integration = state.integration
        /\ Val(committed).tasks = state.tasks
        /\ committed = Some(state)

\* the scheduler is about to sleep after an iteration that spawned a task and
\* recorded the failure of another spawn
NoUnsavedMutationWitness ==
    /\ pc = "spawn" /\ toSpawn = <<>> /\ toSpawnLen >= 2
    /\ CountOf("running") >= 1 /\ CountOf("failed") >= 1
    /\ committed = Some(state)

-----------------------------------------------------------------------------
(* One iteration of the loop of runExecution on a resumed project          *)
(* (specification SpecSlots).                                              *)

\* four tasks without dependencies
PlanFour == PlanPair \o PlanIndexIds

\* --max-parallel of the resumed command
SlotOptions == {1, 2, 3}

\* state.tasks of a killed run: in the order of Object.values the first `done`
\* tasks were spawned, those of `running` are still running, the others have
\* completed, and the rest of the tasks is pending
ResumedTasks(done, running) ==
    LET base == InitTasks(<<>>, PlanFour) IN
    [i \in DOMAIN base |->
        <<base[i][1],
          IF i > done THEN base[i][2]
          ELSE IF i \in running
               THEN RunningExecution(TaskOf(PlanFour, base[i][1]), i, 0)
               ELSE [CompletedExecution(TaskOf(PlanFour, base[i][1])) EXCEPT
                        !.sessionId = Some(SessionName(i))]>>]

\* the projects a run with at most three sessions at a time leaves behind
ResumedProjects ==
    {[Approved(PlanFour, 0) EXCEPT !.tasks = ResumedTasks(done, running)] :
        done \in 0..Len(PlanFour),
        running \in {r \in SUBSET (1..Len(PlanFour)) : Cardinality(r) <= DEFAULT_MAX_PARALLEL}}

InitSlots ==
    /\ state \in ResumedProjects
    /\ maxParallel \in SlotOptions
    /\ pc = "loop"
    /\ clock = 0
    /\ committed = Some(state)
    /\ files = WriteAndRename(NoFiles, state)
    /\ pending = <<>>
    /\ runningLen = 0
    /\ toSpawn = <<>>
    /\ toSpawnLen = 0
    /\ pollQueue = <<>>
    /\ session = [id \in PlanIds(PlanFour) |->
                     CASE StatusOf(state.tasks, id) = "running" -> "working"
                       [] StatusOf(state.tasks, id) = "completed" -> "done"
                       [] OTHER -> "none"]
    /\ created = Len(PlanFour) - Len(WithStatus(state.tasks, "pending"))
    /\ everRunning = {id \in PlanIds(PlanFour) : StatusOf(state.tasks, id) # "pending"}
    /\ startRunning = Len(WithStatus(state.tasks, "running"))
    /\ call = Null

\* lines 76-114: the snapshots, the spawns, then the exit or the sleep
NextSlots ==
    \/ LoopHead
    \/ SpawnBegin
    \/ SpawnCreate
    \/ SpawnRecord
    \/ SpawnPrompt
    \/ Quiesce
    \/ Sleep

SpecSlots == InitSlots /\ [][NextSlots]_vars

\* C35: in every loop iteration of runExecution that starts with
\* count(running) >= maxParallel (for example a project resumed with a
\* smaller maxParallel than the number of tasks recorded running), no task
\* is spawned in that iteration.
NoSpawnWithoutSlot ==
    [][(pc = "loop" /\ CountOf("running") >= maxParallel) => toSpawn' = <<>>]_vars

-----------------------------------------------------------------------------
(* approvePlan with edits, and the lines of orchestrate that store its     *)
(* result (specification SpecApprove).                                     *)

\* edits of the plan in one approval
MaxEdits == 2

\* what the user leaves in the file of the editor
EditedTexts ==
    {Stringify(PlanTree(nodes)) : nodes \in {PlanPair, PlanChain, PlanCycle, PlanUnknownDep,
                                                PlanSelfLoop}}
    \cup
    { <<>>,
      Prose \o JsonFence(Stringify(PlanTree(PlanJoin))),
      Stringify(JObj(<< <<"summary", JStr("plan")>> >>)),
      Stringify(JObj(<< <<"summary", JStr("plan")>>,
                        <<"tasks", JArr(<<NodeWithoutDeps>>)>> >>)) }

\* editPlan, lines 66-82: the plan read back from the file, or null
editPlan(content) ==
    LET edited == extractJson(content) IN
    IF ~HasTasksArray(edited) THEN Null
    ELSE IF ValidateThrows(Get(edited.e, "tasks").a) THEN Null
    ELSE IF ~validateDag(Val(PlanFromJson(edited)).tasks).valid THEN Null
    ELSE PlanFromJson(edited)

\* editPlan at every text, computed once
EditOutcomes == [content \in EditedTexts |-> editPlan(content)]

\* approvePlan, line 32
ApprovedPlan(plan, edited) == [action |-> "approved", plan |-> plan]

\* the projects that reach the approval: runPlanning has recorded a plan the
\* approver can display
ApprovalProjects ==
    {out.state : out \in {o \in {p[2] : p \in PlanningOutcomes(PlanningProject)} :
                              ~o.raises /\ Displayable(Val(o.state.plan).tasks)}}

InitApprove ==
    /\ state \in ApprovalProjects
    /\ call = [fn |-> "approvePlan", plan |-> state.plan, edited |-> Null,
               edits |-> 0, result |-> Null]
    /\ pc = "a_prompt"
    /\ clock \in 0..MaxClock
    /\ committed = Some(state)
    /\ files = WriteAndRename(NoFiles, state)
    /\ \E opt \in MaxParallelOptions : maxParallel = EffectiveMaxParallel(opt)
    /\ pending = <<>>
    /\ runningLen = 0
    /\ toSpawn = <<>>
    /\ toSpawnLen = 0
    /\ pollQueue = <<>>
    /\ session = <<>>
    /\ created = 0
    /\ everRunning = {}
    /\ startRunning = 0

\* approvePlan, lines 35-45: the user edits; the edited plan is displayed when
\* editPlan accepts it (displayPlan may throw), and the prompt comes again
ApproveEdit ==
    /\ pc = "a_prompt"
    /\ call.edits < MaxEdits
    /\ \E content \in EditedTexts :
         LET edited == EditOutcomes[content] IN
         IF edited = Null
         THEN /\ call' = [call EXCEPT !.edits = @ + 1]
              /\ pc' = "a_prompt"
         ELSE IF Displayable(Val(edited).tasks)
         THEN /\ call' = [call EXCEPT !.edits = @ + 1, !.edited = edited]
              /\ pc' = "a_prompt"
         ELSE /\ call' = [call EXCEPT !.edits = @ + 1, !.edited = edited]
              /\ pc' = "a_raised"
    /\ UNCHANGED <<state, storeVars, clock, schedVars>>

\* approvePlan, lines 31-33: the user approves
ApproveYes ==
    /\ pc = "a_prompt"
    /\ call' = [call EXCEPT !.result = ApprovedPlan(call.plan, call.edited)]
    /\ pc' = "a_returned"
    /\ UNCHANGED <<state, storeVars, clock, schedVars>>

\* approvePlan, lines 47-49: the user rejects
ApproveNo ==
    /\ pc = "a_prompt"
    /\ call' = [call EXCEPT !.result = [action |-> "rejected"]]
    /\ pc' = "a_returned"
    /\ UNCHANGED <<state, storeVars, clock, schedVars>>

\* orchestrate.ts, lines 110-120: the result of approvePlan is stored
ApproveStore ==
    /\ pc = "a_returned"
    /\ IF call.result.action = "rejected"
       THEN /\ Saved([state EXCEPT !.phase = "failed"])
            /\ pc' = "exit"
       ELSE /\ Saved([state EXCEPT !.plan = call.result.plan, !.phase = "executing"])
            /\ pc' = "dryrun"
    /\ UNCHANGED <<call, clock, schedVars>>

NextApprove ==
    \/ ApproveEdit
    \/ ApproveYes
    \/ ApproveNo
    \/ ApproveStore

SpecApprove == InitApprove /\ [][NextApprove]_vars

\* C36: when the user edits the plan into a plan that passes validateDag and
\* then approves, approvePlan returns the edited plan and the driver stores
\* that edited plan as project.plan before execution; an edit that fails
\* validation leaves the original plan in force.
ApprovalAfterEdit ==
    (pc = "dryrun" /\ call.fn = "approvePlan") =>
        /\ call.result.plan = (IF call.edited # Null THEN call.edited ELSE call.plan)
        /\ state.plan = call.result.plan
        /\ committed = Some(state)
        /\ state.phase = "executing"

-----------------------------------------------------------------------------
(* extractBalanced on its own (specification SpecBalance).                 *)

\* pieces of a text
MaxPieces == 5

\* the pieces a text is made of, for a kind of delimiter: the delimiters, the
\* quote, an escaped quote, an escaped backslash, and the opening delimiter of
\* the other kind
BalancePieces(open, close, other) ==
    {<<open>>, <<close>>, <<Quote>>, <<Backslash, Quote>>, <<Backslash, Backslash>>,
     <<other>>}

BalanceKinds == {<<"{", "}", "[">>, <<"[", "]", "{">>}

InitBalance ==
    /\ \E kind \in BalanceKinds, n \in 1..MaxPieces :
         \E pieces \in [1..n -> BalancePieces(kind[1], kind[2], kind[3])] :
            /\ IndexOf1(ConcatAll(pieces), kind[1]) # 0
            /\ call = [fn |-> "extractBalanced", text |-> ConcatAll(pieces),
                       start |-> IndexOf1(ConcatAll(pieces), kind[1]),
                       open |-> kind[1], close |-> kind[2],
                       returned |-> FALSE, result |-> Null]
    /\ clock = 0
    /\ state = NoProject
    /\ pc = "balance"
    /\ files = NoFiles
    /\ committed = Null
    /\ maxParallel = 1
    /\ pending = <<>>
    /\ runningLen = 0
    /\ toSpawn = <<>>
    /\ toSpawnLen = 0
    /\ pollQueue = <<>>
    /\ session = <<>>
    /\ created = 0
    /\ everRunning = {}
    /\ startRunning = 0

\* extractJson, lines 30 and 43: extractBalanced(text, start, open, close)
Balance ==
    /\ pc = "balance"
    /\ ~call.returned
    /\ call' = [call EXCEPT
                   !.returned = TRUE,
                   !.result = extractBalanced(call.text, call.start, call.open, call.close)]
    /\ UNCHANGED progVars

NextBalance == Balance

SpecBalance == InitBalance /\ [][NextBalance]_vars

\* the number of backslashes that stand immediately before index i, from the
\* start of the scan on
BackslashRun(text, start, i) ==
    Cardinality({k \in start..(i - 1) : \A j \in k..(i - 1) : text[j] = Backslash})

\* the unit at i is escaped by a backslash
Escaped(text, start, i) == BackslashRun(text, start, i) % 2 = 1

\* a quote that opens or closes a string literal
StringBoundary(text, start, i) == text[i] = Quote /\ ~Escaped(text, start, i)

\* the unit at i stands inside a string literal
InsideString(text, start, i) ==
    Cardinality({k \in start..(i - 1) : StringBoundary(text, start, k)}) % 2 = 1

\* the nesting depth after the unit at j, counting the delimiters outside the
\* string literals
DepthAfter(text, start, open, close, j) ==
    Cardinality({k \in start..j : text[k] = open /\ ~InsideString(text, start, k)})
    - Cardinality({k \in start..j : text[k] = close /\ ~InsideString(text, start, k)})

\* the index of the delimiter that closes the one at start, or 0
RealClose(text, start, open, close) ==
    Least({j \in start..Len(text) : DepthAfter(text, start, open, close, j) = 0})

\* C37: when extractJson scans for the balanced substring that starts at the
\* first '{' (or '['), delimiters inside a double-quoted string literal, and
\* quote characters preceded by a backslash escape, do not change the nesting
\* depth, so the substring returned ends at the delimiter that really closes
\* the first one; when no such delimiter exists the result for that
\* candidate is absent and nothing is raised.
StringAwareBalancing ==
    (pc = "balance" /\ call.returned) =>
        LET end == RealClose(call.text, call.start, call.open, call.close) IN
        IF end = 0 THEN call.result = Null
        ELSE call.result = Some(SubSeq(call.text, call.start, end))

\* the scan has passed a closing brace inside a string literal and returned
\* the text up to the brace after the literal
StringAwareBalancingWitness ==
    /\ pc = "balance" /\ call.returned
    /\ call.text = <<"{", Quote, "}", Quote, "}">>
    /\ call.result = Some(call.text)

-----------------------------------------------------------------------------
(* The whole command with kills at every step, the step between the return *)
(* of createSession and the record of the session included                 *)
(* (specification SpecCrash).                                              *)

\* the sessions of tasks that the stored project records
RecordedSessions ==
    IF committed = Null THEN 0
    ELSE Cardinality({i \in DOMAIN Val(committed).tasks :
                         Val(committed).tasks[i][2].sessionId # Null})

\* the process is killed after createSession has returned for a task and
\* before line 171 has saved the session id
KillUnrecorded ==
    /\ pc = "record"
    /\ created - RecordedSessions <= MaxLostSessions
    /\ pc' = "dead"
    /\ state' = NoProject
    /\ maxParallel' = DEFAULT_MAX_PARALLEL
    /\ pending' = <<>>
    /\ runningLen' = 0
    /\ toSpawn' = <<>>
    /\ toSpawnLen' = 0
    /\ pollQueue' = <<>>
    /\ startRunning' = 0
    /\ call' = Null
    /\ UNCHANGED <<storeVars, clock, session, created, everRunning>>

NextCrash ==
    \/ NextDriver
    \/ KillUnrecorded

SpecCrash == InitDriver /\ [][NextCrash]_vars

\* C38: over any sequence of process kills (at any step) and resumes of one
\* project, createSession is invoked at most once for each task, at most once
\* for planning and at most once for integration: it is invoked for a task
\* only while no session exists for that task, and for planning and for
\* integration only while the stored project records no session of theirs.
OneSessionPerUnit ==
    [][/\ created' # created => session[Head(toSpawn)] = "none"
       /\ (pc = "p_create" /\ pc' = "p_record" /\ committed # Null) =>
             Val(committed).planning.sessionId = Null
       /\ (pc = "i_create" /\ pc' = "i_record") =>
             Val(committed).integration.sessionId = Null]_vars

-----------------------------------------------------------------------------
(* The shape of the task records in the stored project.                    *)

\* the task records of the stored project
StoredTasks ==
    IF committed = Null THEN {}
    ELSE {Val(committed).tasks[i][2] : i \in DOMAIN Val(committed).tasks}

\* C39: in every saved project state a running task has a session id, a
\* branch name and a start time; a pending or skipped task has no session id
\* and no start time; and only completed and failed tasks have a completion
\* time.
SavedTaskShape ==
    \A e \in StoredTasks :
        /\ e.status = "running" =>
              e.sessionId # Null /\ e.branchName # Null /\ e.startedAt # Null
        /\ e.status \in {"pending", "skipped"} =>
              e.sessionId = Null /\ e.startedAt = Null
        /\ e.completedAt # Null => e.status \in {"completed", "failed"}

\* a saved state with a running task next to a task that failed to start
SavedTaskShapeWitness ==
    /\ \E e \in StoredTasks : e.status = "running" /\ e.sessionId # Null
    /\ \E e \in StoredTasks :
          e.status = "failed" /\ e.sessionId = Null /\ e.completedAt # Null

-----------------------------------------------------------------------------
(* Skipping (specification Spec).                                          *)

\* the step changes the status of id to skipped
BecomesSkipped(id) ==
    /\ Alive /\ HasKey(state.tasks, id)
    /\ StatusOf(state.tasks, id) # "skipped"
    /\ state' # NoProject /\ HasKey(state'.tasks, id)
    /\ StatusOf(state'.tasks, id) = "skipped"

\* C40: for a validated plan and maxParallel >= 1, tasks are set to skipped
\* only in a loop iteration in which no task is running and none was spawned;
\* every skipped task has a direct or transitive dependency whose status is
\* failed; and no task is skipped while all of its transitive dependencies are
\* completed.
SkippingJustified ==
    /\ [][maxParallel >= 1 =>
            \A id \in AllIds : BecomesSkipped(id) =>
                /\ pc = "spawn"
                /\ runningLen = 0 /\ toSpawnLen = 0
                /\ CountOf("running") = 0
                /\ \E d \in TransitiveDeps(id) : StatusOf(state.tasks, d) # "completed"
                /\ \E f \in TransitiveDeps(id) : StatusOf(state.tasks, f) = "failed"]_vars
    /\ [](maxParallel >= 1 =>
            \A id \in Tracked :
                StatusOf(state.tasks, id) = "skipped" => HasFailedDependency(id))

\* a task is skipped none of whose direct dependencies failed: the failed
\* task is further up
SkippingJustifiedWitness ==
    /\ maxParallel >= 1
    /\ \E id \in Tracked :
          /\ StatusOf(state.tasks, id) = "skipped"
          /\ \A d \in DependsOn(id) : StatusOf(state.tasks, d) # "failed"
          /\ HasFailedDependency(id)

====
